---------------------------- MODULE Spec2Model ----------------------------
(***************************************************************************)
(* A model of the rust-calculator evaluation engine (src/src/lib.rs):      *)
(* shorthand recognizer, tokenizer, token-count dispatch, shunting yard,   *)
(* RPN evaluator, operator/function library, memory register and variable  *)
(* store.                                                                  *)
(*                                                                         *)
(* Text.  An expression is a sequence of chunks.  A chunk is one character *)
(* (a digit, ".", an operator character, a parenthesis, a space) or one    *)
(* maximal run of letters/underscores written without a break ("sqrt",     *)
(* "m", "x", "km_to_mi").  The chunk alphabet is uniquely decodable: no    *)
(* string has two different chunkings, so equality of chunk sequences is   *)
(* equality of strings.                                                    *)
(*                                                                         *)
(* Numbers.  An f64 is modelled as an exact rational [k = "rat"], an       *)
(* infinity [k = "inf"], NaN [k = "nan"], or, where the exact value is     *)
(* irrational or leaves the range the model tracks, an opaque term         *)
(* [k = "irr"] that records the operation, its arguments and its sign.     *)
(* Rounding is not modelled: arithmetic on tracked values is exact.        *)
(***************************************************************************)
EXTENDS Integers, Sequences, FiniteSets, TLC

VARIABLES
  MEMORY,      \* static MEMORY: RwLock<f64>                (lib.rs:23)
  Variables,   \* static VARIABLES: HashMap<String, f64>    (lib.rs:27)
  pc,          \* "ready": a call is submitted; "done": it has returned
  call,        \* the submitted call: what is called and with which arguments
  result,      \* what the last call returned
  memBefore,   \* MEMORY when the last call started
  ledger,      \* sum of m+ arguments minus sum of m- arguments since the last mc
  written,     \* per case-folded name, the value of the latest set_variable call
  lock,        \* the RwLock of MEMORY: the thread writing, the threads reading
  threads,     \* per concurrent caller: its call, its position, what it read
  run,         \* the position of a call that is run one loop pass at a time
  gui          \* the window: its fields, the messages in flight, the keys pressed

vars ==
  <<MEMORY, Variables, pc, call, result, memBefore, ledger, written, lock, threads, run, gui>>

\* the lock of MEMORY with no guard alive
Free == [writer |-> 0, readers |-> {}]

\* a single caller: no other thread, and the lock is free between calls
SingleCaller == lock = Free /\ threads = << >>

\* no call is run pass by pass
NoRun == [phase |-> "idle"]

\* no window is open
NoGui == [open |-> FALSE]

---------------------------------------------------------------------------
(* Bounds of the model                                                     *)

Cap      == 30000  \* numerators and denominators tracked exactly
MaxRoot  == 173    \* largest integer whose square is looked for by sqrt
MaxExp   == 32     \* largest integer exponent expanded by repeated product
MaxFact  == 12     \* largest argument whose factorial loop is unrolled
MaxDigit == 8      \* most digits of a literal converted exactly

---------------------------------------------------------------------------
(* f64 values                                                              *)

AbsInt(x) == IF x < 0 THEN -x ELSE x
SgnInt(x) == IF x < 0 THEN -1 ELSE IF x = 0 THEN 0 ELSE 1

RECURSIVE Gcd(_, _)
Gcd(a, b) == IF b = 0 THEN a ELSE Gcd(b, a % b)

\* the rational n/d (d > 0) in lowest terms
Rat(n, d) ==
  LET g == Gcd(AbsInt(n), d)
  IN  [k |-> "rat", n |-> n \div g, d |-> d \div g]

Num(n)  == [k |-> "rat", n |-> n, d |-> 1]
Zero    == Num(0)
One     == Num(1)
Inf(s)  == [k |-> "inf", n |-> s, d |-> 0]
NaN     == [k |-> "nan", n |-> 0, d |-> 0]
\* an f64 the model does not track exactly: operation, arguments, sign
Opq(f, a, s) == [k |-> "irr", f |-> f, a |-> a, s |-> s]

Fits(v) == v.k = "rat" /\ AbsInt(v.n) <= Cap /\ v.d <= Cap

\* sign of a value (0 for zero and for NaN)
Sgn(v) ==
  CASE v.k = "rat" -> SgnInt(v.n)
    [] v.k = "inf" -> v.n
    [] v.k = "nan" -> 0
    [] OTHER       -> v.s

\* v > 0.0
GtZero(v) == v.k # "nan" /\ Sgn(v) > 0

\* the comparisons the code makes; every comparison with NaN is false
IsZero(v)     == v.k = "rat" /\ v.n = 0                    \* v == 0.0
LtZero(v)     == v.k # "nan" /\ Sgn(v) < 0                 \* v < 0.0
LeZero(v)     == v.k # "nan" /\ Sgn(v) <= 0                \* v <= 0.0
OutsideUnit(v) ==                                          \* v < -1.0 || v > 1.0
  CASE v.k = "rat" -> AbsInt(v.n) > v.d
    [] v.k = "inf" -> TRUE
    [] OTHER       -> FALSE
FractNonZero(v) == ~(v.k = "rat" /\ v.d = 1)               \* v.fract() != 0.0

Neg(v) ==
  CASE v.k = "rat" -> Rat(-v.n, v.d)
    [] v.k = "inf" -> Inf(-v.n)
    [] v.k = "nan" -> NaN
    [] OTHER       -> Opq("neg", <<v>>, -v.s)

\* left + right
Add(l, r) ==
  CASE l.k = "nan" \/ r.k = "nan" -> NaN
    [] l.k = "inf" /\ r.k = "inf" -> IF l.n = r.n THEN l ELSE NaN
    [] l.k = "inf" -> l
    [] r.k = "inf" -> r
    [] Fits(l) /\ Fits(r) -> Rat(l.n * r.d + r.n * l.d, l.d * r.d)
    [] OTHER -> Opq("+", <<l, r>>, IF Sgn(l) = 0 THEN Sgn(r) ELSE Sgn(l))

\* left - right
Sub(l, r) ==
  CASE l.k = "nan" \/ r.k = "nan" -> NaN
    [] l.k = "inf" /\ r.k = "inf" -> IF l.n # r.n THEN l ELSE NaN
    [] l.k = "inf" -> l
    [] r.k = "inf" -> Inf(-r.n)
    [] Fits(l) /\ Fits(r) -> Rat(l.n * r.d - r.n * l.d, l.d * r.d)
    [] OTHER -> Opq("-", <<l, r>>, IF Sgn(l) = 0 THEN -Sgn(r) ELSE Sgn(l))

\* left * right
Mul(l, r) ==
  CASE l.k = "nan" \/ r.k = "nan" -> NaN
    [] l.k = "inf" \/ r.k = "inf" ->
         IF Sgn(l) * Sgn(r) = 0 THEN NaN ELSE Inf(Sgn(l) * Sgn(r))
    [] IsZero(l) \/ IsZero(r) -> Zero
    [] Fits(l) /\ Fits(r) -> Rat(l.n * r.n, l.d * r.d)
    [] OTHER -> Opq("*", <<l, r>>, Sgn(l) * Sgn(r))

\* left / right (IEEE: x/0 is an infinity, 0/0 is NaN)
Div(l, r) ==
  CASE l.k = "nan" \/ r.k = "nan" -> NaN
    [] l.k = "inf" /\ r.k = "inf" -> NaN
    [] l.k = "inf" -> Inf(IF Sgn(r) < 0 THEN -l.n ELSE l.n)
    [] r.k = "inf" -> Zero
    [] IsZero(r) -> IF Sgn(l) = 0 THEN NaN ELSE Inf(Sgn(l))
    [] IsZero(l) -> Zero
    [] Fits(l) /\ Fits(r) -> Rat(l.n * r.d * SgnInt(r.n), l.d * AbsInt(r.n))
    [] OTHER -> Opq("/", <<l, r>>, Sgn(l) * Sgn(r))

\* left % right: the remainder of the truncated quotient, with left's sign
Rem(l, r) ==
  CASE l.k = "nan" \/ r.k = "nan" -> NaN
    [] l.k = "inf" -> NaN
    [] r.k = "inf" -> l
    [] IsZero(r) -> NaN
    [] Fits(l) /\ Fits(r) ->
         LET a == l.n * r.d
             b == AbsInt(r.n) * l.d
         IN  Rat(SgnInt(a) * (AbsInt(a) % b), l.d * r.d)
    [] OTHER -> Opq("%", <<l, r>>, Sgn(l))

RECURSIVE PowNat(_, _)
PowNat(b, e) == IF e = 0 THEN One ELSE Mul(b, PowNat(b, e - 1))

IsOddInt(v) == v.k = "rat" /\ v.d = 1 /\ v.n % 2 = 1

\* left.powf(right)
Pow(l, r) ==
  CASE IsZero(r) -> One
    [] l = One -> One
    [] l.k = "nan" \/ r.k = "nan" -> NaN
    [] r.k = "inf" ->
         IF l.k = "rat" /\ AbsInt(l.n) = l.d THEN One
         ELSE IF (l.k = "rat" /\ AbsInt(l.n) < l.d) = (r.n > 0) THEN Zero ELSE Inf(1)
    [] l.k = "inf" ->
         IF Sgn(r) < 0 THEN Zero
         ELSE Inf(IF l.n < 0 /\ IsOddInt(r) THEN -1 ELSE 1)
    [] l.k = "rat" /\ r.k = "rat" /\ r.d = 1 /\ AbsInt(r.n) <= MaxExp ->
         IF r.n > 0 THEN PowNat(l, r.n)
         ELSE IF IsZero(l) THEN Inf(1)
         ELSE Div(One, PowNat(l, -r.n))
    [] l.k = "rat" /\ r.k = "rat" /\ r.d # 1 /\ l.n < 0 -> NaN
    [] IsZero(l) -> IF Sgn(r) < 0 THEN Inf(1) ELSE Zero
    [] OTHER -> Opq("^", <<l, r>>, IF Sgn(l) < 0 /\ IsOddInt(r) THEN -1 ELSE 1)

IsSquare(n) == \E i \in 0..MaxRoot : i * i = n
Root(n)     == CHOOSE i \in 0..MaxRoot : i * i = n

\* value.sqrt() for value >= 0 or NaN
Sqrt(v) ==
  CASE v.k = "rat" /\ IsSquare(v.n) /\ IsSquare(v.d) -> Rat(Root(v.n), Root(v.d))
    [] v.k = "inf" -> v
    [] v.k = "nan" -> NaN
    [] OTHER -> Opq("sqrt", <<v>>, 1)

FAbs(v) ==
  CASE v.k = "rat" -> Rat(AbsInt(v.n), v.d)
    [] v.k = "inf" -> Inf(1)
    [] v.k = "nan" -> NaN
    [] OTHER -> Opq("abs", <<v>>, 1)

Floor(v) ==
  CASE v.k = "rat" -> Num(v.n \div v.d)
    [] v.k = "irr" -> Opq("floor", <<v>>, v.s)
    [] OTHER -> v

Ceil(v) ==
  CASE v.k = "rat" -> Num(-((-v.n) \div v.d))
    [] v.k = "irr" -> Opq("ceil", <<v>>, v.s)
    [] OTHER -> v

\* a transcendental function of a value: exact where the f64 result is a
\* tracked rational (exactAt |-> exactVal), opaque with sign s otherwise
Transcend(f, v, exactAt, exactVal, s) ==
  CASE v.k = "nan" -> NaN
    [] v = exactAt -> exactVal
    [] OTHER -> Opq(f, <<v>>, s)

---------------------------------------------------------------------------
(* Text                                                                    *)

Digits   == {"0", "1", "2", "3", "4", "5", "6", "7", "8", "9"}
DigitVal == [c \in Digits |->
               CASE c = "0" -> 0 [] c = "1" -> 1 [] c = "2" -> 2 [] c = "3" -> 3
                 [] c = "4" -> 4 [] c = "5" -> 5 [] c = "6" -> 6 [] c = "7" -> 7
                 [] c = "8" -> 8 [] c = "9" -> 9]
OpChars  == {"+", "-", "*", "/", "%", "^"}

\* char::to_lowercase on a chunk: the upper-case chunks of the alphabet
Lower(c) ==
  CASE c = "X"    -> "x"
    [] c = "Y"    -> "y"
    [] c = "E"    -> "e"
    [] c = "PI"   -> "pi"
    [] c = "Pi"   -> "pi"
    [] c = "INF"  -> "inf"
    [] c = "SQRT" -> "sqrt"
    [] OTHER      -> c

\* str::to_lowercase
to_lowercase(t) == [i \in 1..Len(t) |-> Lower(t[i])]

RECURSIVE TrimStart(_)
TrimStart(t) == IF t # <<>> /\ Head(t) = " " THEN TrimStart(Tail(t)) ELSE t

RECURSIVE TrimEnd(_)
TrimEnd(t) ==
  IF t # <<>> /\ t[Len(t)] = " " THEN TrimEnd(SubSeq(t, 1, Len(t) - 1)) ELSE t

\* str::trim
trim(t) == TrimEnd(TrimStart(t))

\* str::split_whitespace: the maximal runs of non-space chunks
RECURSIVE SplitFrom(_, _, _)
SplitFrom(t, cur, acc) ==
  IF t = <<>> THEN (IF cur = <<>> THEN acc ELSE Append(acc, cur))
  ELSE IF Head(t) = " "
       THEN SplitFrom(Tail(t), <<>>, IF cur = <<>> THEN acc ELSE Append(acc, cur))
       ELSE SplitFrom(Tail(t), Append(cur, Head(t)), acc)

split_whitespace(t) == SplitFrom(t, <<>>, <<>>)

\* str::strip_suffix: [some |-> the text ends with suf, rest |-> what precedes it]
strip_suffix(t, suf) ==
  IF Len(t) >= Len(suf) /\ SubSeq(t, Len(t) - Len(suf) + 1, Len(t)) = suf
  THEN [some |-> TRUE, rest |-> SubSeq(t, 1, Len(t) - Len(suf))]
  ELSE [some |-> FALSE, rest |-> <<>>]

---------------------------------------------------------------------------
(* str::parse::<f64>                                                       *)

RECURSIVE DigitsValue(_)
DigitsValue(ds) ==
  IF ds = <<>> THEN 0
  ELSE 10 * DigitsValue(SubSeq(ds, 1, Len(ds) - 1)) + DigitVal[ds[Len(ds)]]

RECURSIVE Pow10(_)
Pow10(e) == IF e = 0 THEN 1 ELSE 10 * Pow10(e - 1)

AllDigits(t) == \A i \in 1..Len(t) : t[i] \in Digits
NoDots(t)    == SelectSeq(t, LAMBDA c : c # ".")

\* digits with at most one ".", and at least one digit
IsMantissa(t) ==
  /\ \A i \in 1..Len(t) : t[i] \in Digits \cup {"."}
  /\ Len(t) - Len(NoDots(t)) <= 1
  /\ NoDots(t) # <<>>

\* the number of digits after the "."
FracLen(t) ==
  IF \E i \in 1..Len(t) : t[i] = "."
  THEN Len(t) - (CHOOSE i \in 1..Len(t) : t[i] = ".")
  ELSE 0

HasSign(t)   == t # <<>> /\ Head(t) \in {"+", "-"}
Unsigned(t)  == IF HasSign(t) THEN Tail(t) ELSE t
SignOf(t)    == IF t # <<>> /\ Head(t) = "-" THEN -1 ELSE 1

\* the exponent marker: the first "e" or "E" chunk, 0 if there is none
ExpAt(t) ==
  IF \E i \in 1..Len(t) : Lower(t[i]) = "e"
  THEN CHOOSE i \in 1..Len(t) :
         Lower(t[i]) = "e" /\ \A j \in 1..(i - 1) : Lower(t[j]) # "e"
  ELSE 0

\* [ok |-> the text is an f64 literal, v |-> its value]
parse_f64(t) ==
  LET body == Unsigned(t)
      sg   == SignOf(t)
      at   == ExpAt(body)
      mant == IF at = 0 THEN body ELSE SubSeq(body, 1, at - 1)
      expo == IF at = 0 THEN <<>> ELSE SubSeq(body, at + 1, Len(body))
      edig == Unsigned(expo)
      bad  == [ok |-> FALSE, v |-> NaN]
  IN  IF Len(body) = 1 /\ Lower(body[1]) \in {"inf", "infinity"}
        THEN [ok |-> TRUE, v |-> Inf(sg)]
      ELSE IF Len(body) = 1 /\ Lower(body[1]) = "nan"
        THEN [ok |-> TRUE, v |-> NaN]
      ELSE IF ~IsMantissa(mant) THEN bad
      ELSE IF at # 0 /\ (edig = <<>> \/ ~AllDigits(edig)) THEN bad
      ELSE IF Len(NoDots(mant)) > MaxDigit \/ Len(edig) > 1
        THEN [ok |-> TRUE, v |-> Opq("lit", <<t>>, sg)]
      ELSE LET m == DigitsValue(NoDots(mant))
               f == FracLen(mant)
               e == SignOf(expo) * DigitsValue(edig)
           IN  [ok |-> TRUE,
                v  |-> IF e >= f THEN Rat(sg * m * Pow10(e - f), 1)
                       ELSE Rat(sg * m, Pow10(f - e))]

---------------------------------------------------------------------------
(* Results and tokens                                                      *)

\* Result<f64, CalculatorError>
Ok(v)          == [ok |-> TRUE,  v |-> v,    kind |-> "Ok", msg |-> ""]
Err(kind, msg) == [ok |-> FALSE, v |-> Zero, kind |-> kind, msg |-> msg]

\* enum Token; a function name is a text
Number(n)     == [t |-> "Number",     v |-> n]
Operator(op)  == [t |-> "Operator",   v |-> op]
Function(nm)  == [t |-> "Function",   v |-> nm]
LeftParen     == [t |-> "LeftParen",  v |-> <<>>]
RightParen    == [t |-> "RightParen", v |-> <<>>]

is_function(tok) == tok.t = "Function"
is_operator(tok) == tok.t = "Operator"
get_number(tok) ==
  IF tok.t = "Number" THEN Ok(tok.v) ELSE Err("ParseError", "Expected a number")

MPlus  == <<"m", "+">>
MMinus == <<"m", "-">>
MR     == <<"mr">>
MC     == <<"mc">>

\* the conversions array of evaluate_expression, in its order
conversions ==
  << "km_to_mi", "mi_to_km", "kg_to_lb", "lb_to_kg", "c_to_f", "f_to_c",
     "rad_to_deg", "deg_to_rad", "in_to_cm", "cm_to_in", "gal_to_l", "l_to_gal" >>

is_valid_conversion(t) ==
  /\ Len(t) = 1
  /\ t[1] \in { "km_to_mi", "mi_to_km", "kg_to_lb", "lb_to_kg", "c_to_f", "f_to_c",
                "rad_to_deg", "deg_to_rad", "in_to_cm", "cm_to_in", "gal_to_l",
                "l_to_gal" }

\* conversions.contains(&part)
InConversions(t) == Len(t) = 1 /\ \E i \in 1..Len(conversions) : conversions[i] = t[1]

\* str::contains("_to_"): the chunks of the alphabet that contain "_to_"
contains_to(t) ==
  \E i \in 1..Len(t) :
    t[i] \in {conversions[j] : j \in 1..Len(conversions)} \cup {"x_to_y"}

MathFunctions ==
  { "sqrt", "sin", "cos", "tan", "asin", "acos", "atan", "log", "ln", "exp", "abs",
    "floor", "ceil", "fact" }

\* std::f64::consts and the golden ratio literal: irrational, positive
PI  == Opq("pi",  <<>>, 1)
E   == Opq("e",   <<>>, 1)
TAU == Opq("tau", <<>>, 1)
PHI == Opq("phi", <<>>, 1)

---------------------------------------------------------------------------
(* Variable store                                                          *)

\* get_variable: [some |-> the name is defined, v |-> its value]
get_variable(name, store) ==
  LET key == to_lowercase(name)
  IN  IF key \in DOMAIN store THEN [some |-> TRUE, v |-> store[key]]
      ELSE [some |-> FALSE, v |-> Zero]

\* an insert under the name as written, without to_lowercase
InsertAsWritten(store, name, value) ==
  [n \in DOMAIN store \cup {name} |-> IF n = name THEN value ELSE store[n]]

\* vars.insert(name.to_lowercase(), value)
Insert(store, name, value) ==
  LET key == to_lowercase(name)
  IN  [n \in DOMAIN store \cup {key} |-> IF n = key THEN value ELSE store[n]]

---------------------------------------------------------------------------
(* Tokenizer                                                               *)

\* a resolution that asks the Variable Store before anything but a literal
add_token_store_first(tokens, token_str, store) ==
  LET pushed(tok) == [ok |-> TRUE, tokens |-> Append(tokens, tok), res |-> Ok(Zero)]
      num   == parse_f64(token_str)
      lower == to_lowercase(token_str)
      var   == get_variable(token_str, store)
  IN  IF num.ok THEN pushed(Number(num.v))
      ELSE IF var.some THEN pushed(Number(var.v))
      ELSE IF token_str \in {MPlus, MMinus, MR, MC} THEN pushed(Function(token_str))
      ELSE IF contains_to(token_str) /\ is_valid_conversion(token_str)
        THEN pushed(Function(token_str))
      ELSE IF lower = <<"pi">>  THEN pushed(Number(PI))
      ELSE IF lower = <<"e">>   THEN pushed(Number(E))
      ELSE IF lower = <<"tau">> THEN pushed(Number(TAU))
      ELSE IF lower = <<"phi">> THEN pushed(Number(PHI))
      ELSE IF lower \in {<<"inf">>, <<"infinity">>} THEN pushed(Number(Inf(1)))
      ELSE IF Len(token_str) = 1 /\ token_str[1] \in MathFunctions
        THEN pushed(Function(token_str))
      ELSE [ok |-> FALSE, tokens |-> tokens,
            res |-> Err("ParseError", "Unknown token")]

\* add_token: [ok, tokens, res]; res is the error when ok is FALSE
add_token(tokens, token_str, store) ==
  LET pushed(tok) == [ok |-> TRUE, tokens |-> Append(tokens, tok), res |-> Ok(Zero)]
      num   == parse_f64(token_str)
      lower == to_lowercase(token_str)
      var   == get_variable(token_str, store)
  IN  IF num.ok THEN pushed(Number(num.v))
      ELSE IF token_str \in {MPlus, MMinus, MR, MC} THEN pushed(Function(token_str))
      ELSE IF contains_to(token_str) /\ is_valid_conversion(token_str)
        THEN pushed(Function(token_str))
      ELSE IF lower = <<"pi">>  THEN pushed(Number(PI))
      ELSE IF lower = <<"e">>   THEN pushed(Number(E))
      ELSE IF lower = <<"tau">> THEN pushed(Number(TAU))
      ELSE IF lower = <<"phi">> THEN pushed(Number(PHI))
      ELSE IF lower \in {<<"inf">>, <<"infinity">>} THEN pushed(Number(Inf(1)))
      ELSE IF Len(token_str) = 1 /\ token_str[1] \in MathFunctions
        THEN pushed(Function(token_str))
      ELSE IF var.some THEN pushed(Number(var.v))
      ELSE [ok |-> FALSE, tokens |-> tokens,
            res |-> Err("ParseError", "Unknown token")]

\* the tokenizer state: tokens so far, the pending buffer, the first error
TokInit == [ok |-> TRUE, tokens |-> <<>>, cur |-> <<>>, res |-> Ok(Zero)]

\* add the pending buffer as a token and clear it
Cleared(a) == [ok |-> a.ok, tokens |-> a.tokens, cur |-> <<>>, res |-> a.res]

Flush(st, store) == Cleared(add_token(st.tokens, st.cur, store))

FlushIfPending(st, store) == IF st.cur # <<>> THEN Flush(st, store) ELSE st

\* a '-' read as a sign only at the start, after '(' and after a function
StartsNegativeNotAfterOperator(tokens) ==
  \/ tokens = <<>>
  \/ tokens[Len(tokens)].t \in {"LeftParen", "Function"}

\* the token before a '-' makes it the sign of a literal
\* a '-' read as a sign after a Number token as well
StartsNegativeAfterNumber(tokens) ==
  \/ tokens = <<>>
  \/ tokens[Len(tokens)].t \in {"Operator", "LeftParen", "Function", "Number"}

StartsNegative(tokens) ==
  \/ tokens = <<>>
  \/ tokens[Len(tokens)].t \in {"Operator", "LeftParen", "Function"}

\* an operator character, once the pending buffer f is flushed: a '-' starts
\* a negative literal or is pushed as an operator like the others
OperatorChar(f, ch) ==
  IF ~f.ok THEN f
  ELSE IF ch = "-" /\ StartsNegative(f.tokens) THEN [f EXCEPT !.cur = <<ch>>]
  ELSE [f EXCEPT !.tokens = Append(@, Operator(ch))]

\* a '(' that drops the pending buffer
LeftParenDropsName(st) == [st EXCEPT !.tokens = Append(@, LeftParen), !.cur = <<>>]

\* '(' : the pending buffer, if any, is pushed as a function name
LeftParenChar(st) ==
  [st EXCEPT !.tokens = Append(IF st.cur # <<>> THEN Append(@, Function(st.cur)) ELSE @,
                               LeftParen),
             !.cur = <<>>]

\* ')' , once the pending buffer f is flushed
RightParenChar(f) == IF ~f.ok THEN f ELSE [f EXCEPT !.tokens = Append(@, RightParen)]

\* one pass of the while loop of tokenize, for the character ch
TokStep(st, ch, store) ==
  IF ~st.ok THEN st
  ELSE IF ch = " " THEN FlushIfPending(st, store)
  ELSE IF ch \in Digits \cup {"."} THEN [st EXCEPT !.cur = Append(@, ch)]
  ELSE IF ch \in OpChars THEN
    IF ch \in {"+", "-"} /\ st.cur = <<"m">>
    THEN Flush([st EXCEPT !.cur = Append(@, ch)], store)
    ELSE OperatorChar(FlushIfPending(st, store), ch)
  ELSE IF ch = "(" THEN LeftParenChar(st)
  ELSE IF ch = ")" THEN RightParenChar(FlushIfPending(st, store))
  ELSE [st EXCEPT !.cur = Append(@, ch)]

RECURSIVE TokLoop(_, _, _)
TokLoop(st, chars, store) ==
  IF chars = <<>> THEN st
  ELSE TokLoop(TokStep(st, Head(chars), store), Tail(chars), store)

\* the special cases after the loop of tokenize
\* a lone mr or mc is given the operand 0
PadMemory(tokens) ==
  IF Len(tokens) = 1 /\ is_function(tokens[1]) /\ tokens[1].v \in {MR, MC}
  THEN Append(tokens, Number(Zero)) ELSE tokens

\* "<x> <conversion>": the first token has to be a number
CheckConversion(padded) ==
  IF Len(padded) = 2 /\ is_function(padded[2]) /\ contains_to(padded[2].v)
       /\ ~get_number(padded[1]).ok
  THEN [ok |-> FALSE, tokens |-> <<>>, res |-> get_number(padded[1])]
  ELSE [ok |-> TRUE, tokens |-> padded, res |-> Ok(Zero)]

TokFinish(tokens) == CheckConversion(PadMemory(tokens))

\* the end of tokenize, from the state last after the final flush
TokEnd(last) ==
  IF ~last.ok THEN [ok |-> FALSE, tokens |-> <<>>, res |-> last.res]
  ELSE IF Len(last.tokens) >= 1 THEN TokFinish(last.tokens)
  ELSE [ok |-> TRUE, tokens |-> last.tokens, res |-> Ok(Zero)]

\* the flush of the last pending buffer after the loop
LastFlush(looped, store) == IF looped.ok THEN FlushIfPending(looped, store) ELSE looped

\* tokenize: [ok, tokens, res]
tokenize(expression, store) ==
  IF trim(expression) \in {MR, MC}
  THEN [ok |-> TRUE, tokens |-> <<Function(trim(expression)), Number(Zero)>>,
        res |-> Ok(Zero)]
  ELSE TokEnd(LastFlush(TokLoop(TokInit, expression, store), store))

---------------------------------------------------------------------------
(* Operator and function library                                           *)

\* one precedence for every operator
flat_precedence(op) == 1

\* get_precedence
get_precedence(op) ==
  CASE op \in {"+", "-"}      -> 1
    [] op \in {"*", "/", "%"} -> 2
    [] op = "^"               -> 3
    [] OTHER                  -> 0

\* the operators without the tests for a zero divisor
unchecked_binary_operation(left, operator, right) ==
  CASE operator = "+" -> Ok(Add(left, right))
    [] operator = "-" -> Ok(Sub(left, right))
    [] operator = "*" -> Ok(Mul(left, right))
    [] operator = "/" -> Ok(Div(left, right))
    [] operator = "%" -> Ok(Rem(left, right))
    [] operator = "^" -> Ok(Pow(left, right))
    [] OTHER          -> Err("SyntaxError", "Unknown operator")

\* evaluate_binary_operation
evaluate_binary_operation(left, operator, right) ==
  CASE operator = "+" -> Ok(Add(left, right))
    [] operator = "-" -> Ok(Sub(left, right))
    [] operator = "*" -> Ok(Mul(left, right))
    [] operator = "/" -> IF IsZero(right) THEN Err("MathError", "Division by zero")
                         ELSE Ok(Div(left, right))
    [] operator = "%" -> IF IsZero(right) THEN Err("MathError", "Modulo by zero")
                         ELSE Ok(Rem(left, right))
    [] operator = "^" -> Ok(Pow(left, right))
    [] OTHER          -> Err("SyntaxError", "Unknown operator")

\* a loop over 2..value, without the last factor
RECURSIVE FactLoopExclusive(_, _, _)
FactLoopExclusive(acc, i, n) ==
  IF i >= n THEN acc ELSE FactLoopExclusive(Mul(acc, Num(i)), i + 1, n)

\* the loop  for i in 2..=value as u64 { result *= i as f64 }  from i up to n
RECURSIVE FactLoop(_, _, _)
FactLoop(acc, i, n) == IF i > n THEN acc ELSE FactLoop(Mul(acc, Num(i)), i + 1, n)

Factorial(v) ==
  IF v.n <= MaxFact THEN FactLoop(One, 2, v.n) ELSE Opq("fact", <<v>>, 1)

\* *memory += value
memory_add(mem, value) == Add(mem, value)

\* a subtraction that adds
memory_sub_adds(mem, value) == Add(mem, value)

\* *memory -= value
memory_sub(mem, value) == Sub(mem, value)

\* a factor with the decimal point one place off
DecTenth(n, d) == Rat(n, d * 10)

\* a rational literal of the source, such as 0.621371
Dec(n, d) == Rat(n, d)

\* evaluate_function: [res |-> the result, mem |-> MEMORY afterwards]
evaluate_function(function, value, mem) ==
  LET pure(r) == [res |-> r, mem |-> mem]
      f == IF Len(function) = 1 THEN function[1] ELSE ""
  IN
  CASE f = "sqrt" ->
         pure(IF LtZero(value)
              THEN Err("ArgumentError", "Cannot calculate square root of negative number")
              ELSE Ok(Sqrt(value)))
    [] f = "sin" -> pure(Ok(Transcend("sin", value, Zero, Zero, Sgn(value))))
    [] f = "cos" -> pure(Ok(Transcend("cos", value, Zero, One, 1)))
    [] f = "tan" -> pure(Ok(Transcend("tan", value, Zero, Zero, Sgn(value))))
    [] f = "asin" ->
         pure(IF OutsideUnit(value)
              THEN Err("ArgumentError", "Inverse sine argument must be between -1 and 1")
              ELSE Ok(Transcend("asin", value, Zero, Zero, Sgn(value))))
    [] f = "acos" ->
         pure(IF OutsideUnit(value)
              THEN Err("ArgumentError", "Inverse cosine argument must be between -1 and 1")
              ELSE Ok(Transcend("acos", value, One, Zero, 1)))
    [] f = "atan" -> pure(Ok(Transcend("atan", value, Zero, Zero, Sgn(value))))
    [] f = "log" ->
         pure(IF LeZero(value)
              THEN Err("ArgumentError", "Cannot calculate logarithm of non-positive number")
              ELSE Ok(Transcend("log", value, One, Zero,
                                IF OutsideUnit(value) THEN 1 ELSE -1)))
    [] f = "ln" ->
         pure(IF LeZero(value)
              THEN Err("ArgumentError",
                       "Cannot calculate natural logarithm of non-positive number")
              ELSE Ok(Transcend("ln", value, One, Zero,
                                IF OutsideUnit(value) THEN 1 ELSE -1)))
    [] f = "exp"   -> pure(Ok(Transcend("exp", value, Zero, One, 1)))
    [] f = "abs"   -> pure(Ok(FAbs(value)))
    [] f = "floor" -> pure(Ok(Floor(value)))
    [] f = "ceil"  -> pure(Ok(Ceil(value)))
    [] f = "fact" ->
         pure(IF LtZero(value)
              THEN Err("ArgumentError", "Cannot calculate factorial of negative number")
              ELSE IF FractNonZero(value)
              THEN Err("ArgumentError", "Factorial requires an integer value")
              ELSE Ok(Factorial(value)))
    [] function = MPlus  -> [res |-> Ok(memory_add(mem, value)),
                             mem |-> memory_add(mem, value)]
    [] function = MMinus -> [res |-> Ok(memory_sub(mem, value)),
                             mem |-> memory_sub(mem, value)]
    [] f = "mr" -> pure(Ok(mem))
    [] f = "mc" -> [res |-> Ok(Zero), mem |-> Zero]
    [] f = "km_to_mi"   -> pure(Ok(Mul(value, Dec(621371, 1000000))))
    [] f = "mi_to_km"   -> pure(Ok(Mul(value, Dec(160934, 100000))))
    [] f = "kg_to_lb"   -> pure(Ok(Mul(value, Dec(220462, 100000))))
    [] f = "lb_to_kg"   -> pure(Ok(Mul(value, Dec(453592, 1000000))))
    [] f = "c_to_f"     -> pure(Ok(Add(Div(Mul(value, Num(9)), Num(5)), Num(32))))
    [] f = "f_to_c"     -> pure(Ok(Div(Mul(Sub(value, Num(32)), Num(5)), Num(9))))
    [] f = "rad_to_deg" -> pure(Ok(Div(Mul(value, Num(180)), PI)))
    [] f = "deg_to_rad" -> pure(Ok(Div(Mul(value, PI), Num(180))))
    [] f = "in_to_cm"   -> pure(Ok(Mul(value, Dec(254, 100))))
    [] f = "cm_to_in"   -> pure(Ok(Div(value, Dec(254, 100))))
    [] f = "gal_to_l"   -> pure(Ok(Mul(value, Dec(378541, 100000))))
    [] f = "l_to_gal"   -> pure(Ok(Div(value, Dec(378541, 100000))))
    [] OTHER -> pure(Err("SyntaxError", "Unknown function"))

---------------------------------------------------------------------------
(* RPN evaluator                                                           *)

RpnInit(mem) == [ok |-> TRUE, stack |-> <<>>, mem |-> mem, res |-> Ok(Zero)]

Pop(stk)  == SubSeq(stk, 1, Len(stk) - 1)
Top(stk)  == stk[Len(stk)]

\* one pass of the for loop of evaluate_rpn
\* the loop stops with the error r
RpnFail(st, r) == [st EXCEPT !.ok = FALSE, !.res = r]

\* Option::unwrap() on None: the thread panics
Panic == Err("Panic", "called Option::unwrap() on a None value")

\* the two operands are replaced by the result r of the operator, or r? returns;
\* stack.pop().unwrap() panics on a stack that is too short
RpnOperator(st, r) ==
  IF Len(st.stack) < 2 THEN RpnFail(st, Panic)
  ELSE IF ~r.ok THEN RpnFail(st, r)
  ELSE [st EXCEPT !.stack = Append(Pop(Pop(@)), r.v)]

\* the argument is replaced by the result r of the function, or r? returns;
\* r.mem is the register as the function left it
RpnFunction(st, r) ==
  IF st.stack = <<>> THEN RpnFail(st, Panic)
  ELSE IF ~r.res.ok THEN [st EXCEPT !.ok = FALSE, !.res = r.res, !.mem = r.mem]
  ELSE [st EXCEPT !.stack = Append(Pop(@), r.res.v), !.mem = r.mem]

\* a pass that pops without testing the length of the stack
RpnStepUnguarded(st, token) ==
  IF ~st.ok THEN st
  ELSE IF token.t = "Number" THEN [st EXCEPT !.stack = Append(@, token.v)]
  ELSE IF token.t = "Operator" THEN
    RpnOperator(st, evaluate_binary_operation(Top(Pop(st.stack)), token.v,
                                              Top(st.stack)))
  ELSE IF token.t = "Function" THEN
    RpnFunction(st, evaluate_function(token.v, Top(st.stack), st.mem))
  ELSE RpnFail(st, Err("SyntaxError", "Unexpected token in RPN evaluation"))

\* one pass of the for loop of evaluate_rpn
RpnStep(st, token) ==
  IF ~st.ok THEN st
  ELSE IF token.t = "Number" THEN [st EXCEPT !.stack = Append(@, token.v)]
  ELSE IF token.t = "Operator" THEN
    IF Len(st.stack) < 2
    THEN RpnFail(st, Err("SyntaxError", "Invalid expression: not enough operands"))
    ELSE RpnOperator(st, evaluate_binary_operation(Top(Pop(st.stack)), token.v,
                                                   Top(st.stack)))
  ELSE IF token.t = "Function" THEN
    IF st.stack = <<>>
    THEN RpnFail(st, Err("SyntaxError", "Invalid expression: function without argument"))
    ELSE RpnFunction(st, evaluate_function(token.v, Top(st.stack), st.mem))
  ELSE RpnFail(st, Err("SyntaxError", "Unexpected token in RPN evaluation"))

RECURSIVE RpnLoop(_, _)
RpnLoop(st, tokens) ==
  IF tokens = <<>> THEN st ELSE RpnLoop(RpnStep(st, Head(tokens)), Tail(tokens))

\* evaluate_rpn: [res, mem]
\* the end of evaluate_rpn, from the state st after the loop
RpnEnd(st) ==
  IF ~st.ok THEN [res |-> st.res, mem |-> st.mem]
  ELSE IF Len(st.stack) # 1
  THEN [res |-> Err("SyntaxError", "Invalid expression: too many operands"),
        mem |-> st.mem]
  ELSE [res |-> Ok(Top(st.stack)), mem |-> st.mem]

evaluate_rpn(tokens, mem) == RpnEnd(RpnLoop(RpnInit(mem), tokens))

---------------------------------------------------------------------------
(* Shunting yard                                                           *)

\* the pop test with every operator left-associative
ShouldPopLeftAssociative(op, top_op) == get_precedence(op) <= get_precedence(top_op)

\* the test that pops the operator top_op before op is pushed
ShouldPop(op, top_op) ==
  /\ get_precedence(op) <= get_precedence(top_op)
  /\ (op # "^" \/ get_precedence(op) < get_precedence(top_op))

\* the shunting-yard state: output queue, operator stack, first error
YardInit == [ok |-> TRUE, output_queue |-> <<>>, operator_stack |-> <<>>,
             res |-> Ok(Zero)]

\* RightParen: pop to the output until a LeftParen, which is removed
RECURSIVE PopToLeftParen(_)
PopToLeftParen(st) ==
  IF st.operator_stack = <<>>
  THEN [st EXCEPT !.ok = FALSE,
                  !.res = Err("SyntaxError", "Mismatched parentheses: missing '('")]
  ELSE IF Top(st.operator_stack).t = "LeftParen"
  THEN [st EXCEPT !.operator_stack = Pop(@)]
  ELSE PopToLeftParen([st EXCEPT !.output_queue = Append(@, Top(st.operator_stack)),
                                 !.operator_stack = Pop(@)])

\* after the LeftParen is removed: a function on top is popped too
PopFunction(st) ==
  IF st.ok /\ st.operator_stack # <<>> /\ Top(st.operator_stack).t = "Function"
  THEN [st EXCEPT !.output_queue = Append(@, Top(st.operator_stack)),
                  !.operator_stack = Pop(@)]
  ELSE st

\* a loop that pops operators only and leaves a function on the stack
RECURSIVE PopOperatorsOnly(_, _)
PopOperatorsOnly(st, op) ==
  IF st.operator_stack = <<>> THEN st
  ELSE LET top == Top(st.operator_stack)
           moved == [st EXCEPT !.output_queue = Append(@, top),
                               !.operator_stack = Pop(@)]
       IN  IF top.t = "Operator" /\ ShouldPop(op, top.v)
           THEN PopOperatorsOnly(moved, op)
           ELSE st

\* Operator: the while loop that pops operators and functions before the push
RECURSIVE PopOperators(_, _)
PopOperators(st, op) ==
  IF st.operator_stack = <<>> THEN st
  ELSE LET top == Top(st.operator_stack)
           moved == [st EXCEPT !.output_queue = Append(@, top),
                               !.operator_stack = Pop(@)]
       IN  IF top.t = "Operator"
           THEN IF ShouldPop(op, top.v) THEN PopOperators(moved, op) ELSE st
           ELSE IF top.t = "Function" THEN PopOperators(moved, op)
           ELSE st

\* a pass that pushes a RightParen on the operator stack like a LeftParen
YardStepPushesParens(st, token) ==
  IF ~st.ok THEN st
  ELSE IF token.t = "Number" THEN [st EXCEPT !.output_queue = Append(@, token)]
  ELSE IF token.t \in {"Function", "LeftParen", "RightParen"}
  THEN [st EXCEPT !.operator_stack = Append(@, token)]
  ELSE [PopOperators(st, token.v) EXCEPT !.operator_stack = Append(@, token)]

\* one pass of the for loop of evaluate_complex_expression
YardStep(st, token) ==
  IF ~st.ok THEN st
  ELSE IF token.t = "Number" THEN [st EXCEPT !.output_queue = Append(@, token)]
  ELSE IF token.t = "Function" THEN [st EXCEPT !.operator_stack = Append(@, token)]
  ELSE IF token.t = "LeftParen" THEN [st EXCEPT !.operator_stack = Append(@, token)]
  ELSE IF token.t = "RightParen" THEN PopFunction(PopToLeftParen(st))
  ELSE [PopOperators(st, token.v) EXCEPT !.operator_stack = Append(@, token)]

RECURSIVE YardLoop(_, _)
YardLoop(st, tokens) ==
  IF tokens = <<>> THEN st ELSE YardLoop(YardStep(st, Head(tokens)), Tail(tokens))

\* a drain that discards a parenthesis left on the stack
RECURSIVE DrainDiscardsParen(_)
DrainDiscardsParen(st) ==
  IF ~st.ok \/ st.operator_stack = <<>> THEN st
  ELSE IF Top(st.operator_stack).t \in {"LeftParen", "RightParen"}
  THEN DrainDiscardsParen([st EXCEPT !.operator_stack = Pop(@)])
  ELSE DrainDiscardsParen([st EXCEPT !.output_queue = Append(@, Top(st.operator_stack)),
                                     !.operator_stack = Pop(@)])

\* the loop that pops the remaining operators to the output queue
RECURSIVE Drain(_)
Drain(st) ==
  IF ~st.ok \/ st.operator_stack = <<>> THEN st
  ELSE LET op == Top(st.operator_stack)
       IN  IF op.t = "LeftParen"
           THEN [st EXCEPT !.ok = FALSE,
                           !.res = Err("SyntaxError", "Mismatched parentheses: missing ')'")]
           ELSE IF op.t = "RightParen"
           THEN [st EXCEPT !.ok = FALSE,
                           !.res = Err("SyntaxError", "Mismatched parentheses: extra ')'")]
           ELSE Drain([st EXCEPT !.output_queue = Append(@, op),
                                 !.operator_stack = Pop(@)])

\* the postfix order of the tokens: the shunting-yard state after the drain
to_postfix(tokens) == Drain(YardLoop(YardInit, tokens))

\* the postfix order yard is evaluated, unless the conversion failed
EvaluatePostfix(yard, mem) ==
  IF ~yard.ok THEN [res |-> yard.res, mem |-> mem]
  ELSE evaluate_rpn(yard.output_queue, mem)

\* evaluate_complex_expression: [res, mem]
evaluate_complex_expression(tokens, mem) ==
  IF Len(tokens) = 2 /\ tokens[1].t = "Function" /\ tokens[1].v \in {MPlus, MMinus}
     /\ tokens[2].t = "Number"
  THEN evaluate_function(tokens[1].v, tokens[2].v, mem)
  ELSE IF Len(tokens) = 2 /\ tokens[1].t = "Number" /\ tokens[2].t = "Function"
          /\ contains_to(tokens[2].v)
  THEN evaluate_function(tokens[2].v, tokens[1].v, mem)
  ELSE EvaluatePostfix(to_postfix(tokens), mem)

---------------------------------------------------------------------------
(* evaluate_expression                                                     *)

\* "Case 2": the first conversion, in array order, that the trimmed input
\* ends with and whose prefix parses as a number; 0 if there is none
SuffixConversion(trimmed) ==
  LET hit(i) == LET sfx == strip_suffix(trimmed, <<conversions[i]>>)
                IN  sfx.some /\ parse_f64(trim(sfx.rest)).ok
  IN  IF \E i \in 1..Len(conversions) : hit(i)
      THEN CHOOSE i \in 1..Len(conversions) : hit(i) /\ \A j \in 1..(i - 1) : ~hit(j)
      ELSE 0

\* the dispatch on the number of tokens, after tokenize
Dispatch(tokens, mem) ==
  LET pure(r) == [res |-> r, mem |-> mem]
  IN
  IF tokens = <<>> THEN pure(Err("SyntaxError", "Empty expression"))
  ELSE IF Len(tokens) = 2 /\ is_function(tokens[1]) THEN
    IF ~get_number(tokens[2]).ok THEN pure(get_number(tokens[2]))
    ELSE evaluate_function(tokens[1].v, tokens[2].v, mem)
  ELSE IF Len(tokens) = 3 /\ is_operator(tokens[2]) THEN
    IF ~get_number(tokens[1]).ok THEN pure(get_number(tokens[1]))
    ELSE IF ~get_number(tokens[3]).ok THEN pure(get_number(tokens[3]))
    ELSE pure(evaluate_binary_operation(tokens[1].v, tokens[2].v, tokens[3].v))
  ELSE IF Len(tokens) > 3 THEN evaluate_complex_expression(tokens, mem)
  ELSE IF Len(tokens) = 1 THEN pure(get_number(tokens[1]))
  ELSE pure(Err("SyntaxError", "Invalid expression format"))

\* let tokens = tokenize(expression)?  and the dispatch on the tokens
Tokenized(toks, mem) ==
  IF ~toks.ok THEN [res |-> toks.res, mem |-> mem]
  ELSE Dispatch(toks.tokens, mem)

\* a shorthand that answers the call and resets the register
TakenAndCleared(out) == [some |-> TRUE, res |-> out.res, mem |-> Zero]

\* the result of a shorthand that answered the call
Taken(out) == [some |-> TRUE, res |-> out.res, mem |-> out.mem]

\* the shorthands of evaluate_expression, tried before tokenize:
\* [some |-> one of them answered, res, mem]
Shorthand(expression, mem) ==
  LET trimmed == trim(expression)
      pure(r) == [res |-> r, mem |-> mem]
      plus    == strip_suffix(trimmed, MPlus)
      minus   == strip_suffix(trimmed, MMinus)
      parts   == split_whitespace(trimmed)
      conv    == SuffixConversion(trimmed)
  IN
  IF trimmed = MR THEN Taken(pure(Ok(mem)))
  ELSE IF trimmed = MC THEN Taken([res |-> Ok(Zero), mem |-> Zero])
  ELSE IF plus.some /\ parse_f64(trim(plus.rest)).ok THEN
    LET m == memory_add(mem, parse_f64(trim(plus.rest)).v) IN Taken([res |-> Ok(m), mem |-> m])
  ELSE IF minus.some /\ parse_f64(trim(minus.rest)).ok THEN
    LET m == memory_sub(mem, parse_f64(trim(minus.rest)).v) IN Taken([res |-> Ok(m), mem |-> m])
  ELSE IF Len(parts) = 2 /\ parse_f64(parts[1]).ok /\ InConversions(parts[2])
    THEN Taken(evaluate_function(parts[2], parse_f64(parts[1]).v, mem))
  ELSE IF Len(parts) = 2 /\ ~parse_f64(parts[1]).ok
          /\ to_lowercase(parts[1]) = <<"pi">> /\ InConversions(parts[2])
    THEN Taken(evaluate_function(parts[2], PI, mem))
  ELSE IF Len(parts) = 2 /\ ~parse_f64(parts[1]).ok
          /\ to_lowercase(parts[1]) = <<"e">> /\ InConversions(parts[2])
    THEN Taken(evaluate_function(parts[2], E, mem))
  ELSE IF conv # 0
    THEN Taken(evaluate_function(<<conversions[conv]>>,
                 parse_f64(trim(strip_suffix(trimmed, <<conversions[conv]>>).rest)).v,
                 mem))
  ELSE [some |-> FALSE, res |-> Ok(Zero), mem |-> mem]

\* the answer a of the shorthands, or tokenize and the dispatch
ShorthandOr(a, expression, mem, store) ==
  IF a.some THEN [res |-> a.res, mem |-> a.mem]
  ELSE Tokenized(tokenize(expression, store), mem)

\* evaluate_expression: [res |-> the result, mem |-> MEMORY afterwards]
evaluate_expression(expression, mem, store) ==
  ShorthandOr(Shorthand(expression, mem), expression, mem, store)

---------------------------------------------------------------------------
(* Callers: the expressions and variable definitions submitted             *)

MaxNum == 3   \* literals range over the integers -MaxNum..MaxNum and two decimals
MaxLen == 4   \* longest text of the exhaustive families, in chunks
MaxMem == 3   \* m+ / m- are submitted while |MEMORY| <= MaxMem

DigitChar == <<"0", "1", "2", "3", "4", "5", "6", "7", "8", "9">>

RECURSIVE ShowNat(_)
ShowNat(n) ==
  IF n < 10 THEN <<DigitChar[n + 1]>>
  ELSE ShowNat(n \div 10) \o <<DigitChar[(n % 10) + 1]>>

\* format!("{}", v) for an integer or a half-integer v
Show(v) ==
  (IF v.n < 0 THEN <<"-">> ELSE <<>>)
    \o ShowNat(AbsInt(v.n) \div v.d)
    \o (IF v.d = 2 THEN <<".", "5">> ELSE <<>>)

Sp == <<" ">>

Ints == {Num(n) : n \in -1..MaxNum}
Lits == {Num(n) : n \in -MaxNum..MaxNum} \cup {Rat(3, 2), Rat(-1, 2)}

\* an evaluate call: the text, and how it was written (shape, numbers, symbols)
EvalCall(shape, nums, syms, expr) ==
  [op |-> "evaluate", shape |-> shape, nums |-> nums, syms |-> syms, expr |-> expr]

\* "a op b"
BinaryCalls ==
  { EvalCall("binary", <<a, b>>, <<o>>, Show(a) \o Sp \o <<o>> \o Sp \o Show(b)) :
      a \in Lits, b \in Lits, o \in OpChars }

\* "a op1 b op2 c"
ChainCalls ==
  { EvalCall("chain", <<x[1], x[2], x[3]>>, <<x[4], x[5]>>,
             Show(x[1]) \o Sp \o <<x[4]>> \o Sp \o Show(x[2]) \o Sp \o <<x[5]>> \o Sp
               \o Show(x[3])) :
      x \in Ints \X Ints \X Ints \X OpChars \X OpChars }

\* "(a op1 b) op2 c"
LeftGroupCalls ==
  { EvalCall("lgroup", <<x[1], x[2], x[3]>>, <<x[4], x[5]>>,
             <<"(">> \o Show(x[1]) \o Sp \o <<x[4]>> \o Sp \o Show(x[2]) \o <<")">> \o Sp
               \o <<x[5]>> \o Sp \o Show(x[3])) :
      x \in Ints \X Ints \X Ints \X OpChars \X OpChars }

\* "a op1 (b op2 c)"
RightGroupCalls ==
  { EvalCall("rgroup", <<x[1], x[2], x[3]>>, <<x[4], x[5]>>,
             Show(x[1]) \o Sp \o <<x[4]>> \o Sp \o <<"(">> \o Show(x[2]) \o Sp
               \o <<x[5]>> \o Sp \o Show(x[3]) \o <<")">>) :
      x \in Ints \X Ints \X Ints \X OpChars \X OpChars }

\* "f x" and "f(x)"
SpaceFormCalls ==
  { EvalCall("fspace", <<a>>, <<f>>, <<f>> \o Sp \o Show(a)) :
      a \in Lits, f \in MathFunctions }
CallFormCalls ==
  { EvalCall("fcall", <<a>>, <<f>>, <<f, "(">> \o Show(a) \o <<")">>) :
      a \in Lits, f \in MathFunctions }

\* every text of at most MaxLen chunks over a small alphabet
RECURSIVE TextsOver(_, _)
TextsOver(alphabet, n) ==
  IF n = 0 THEN {<<>>}
  ELSE LET shorter == TextsOver(alphabet, n - 1)
       IN  shorter \cup {Append(t, c) : t \in shorter, c \in alphabet}

\* "a + b / (c - c)" and "a + b % (c - c)": a zero divisor inside a larger expression
ZeroDivisorCalls ==
  { EvalCall("zerodiv", <<x[1], x[2], x[3]>>, <<x[4]>>,
             Show(x[1]) \o Sp \o <<"+">> \o Sp \o Show(x[2]) \o Sp \o <<x[4]>> \o Sp
               \o <<"(">> \o Show(x[3]) \o Sp \o <<"-">> \o Sp \o Show(x[3]) \o <<")">>) :
      x \in Ints \X Ints \X Ints \X {"/", "%"} }

ParenAlphabet     == {"(", ")", "2", "-", " ", "sqrt"}
ShorthandAlphabet == {"(", ")", "2", "m", "+", "c_to_f"}
TextCalls ==
  { EvalCall("text", <<>>, <<>>, t) :
      t \in TextsOver(ParenAlphabet, MaxLen) \cup TextsOver(ShorthandAlphabet, MaxLen) }

ArithCalls ==
  BinaryCalls \cup ChainCalls \cup LeftGroupCalls \cup RightGroupCalls
    \cup ZeroDivisorCalls
\* the f64 literals that are no finite number, as Rust parses them
Specials == {Inf(1), Inf(-1), NaN}
ShowSpecial(v) ==
  CASE v = Inf(1)  -> <<"inf">>
    [] v = Inf(-1) -> <<"-", "inf">>
    [] v = NaN     -> <<"nan">>

\* "f inf", "f -inf", "f nan"
SpecialCalls ==
  { EvalCall("fspecial", <<a>>, <<f>>, <<f>> \o Sp \o ShowSpecial(a)) :
      a \in Specials, f \in MathFunctions }

MaxFactArg == 7   \* "fact n" is submitted for n in 0..MaxFactArg

\* "fact n"
FactCalls ==
  { EvalCall("fact", <<Num(n)>>, <<"fact">>, <<"fact">> \o Sp \o Show(Num(n))) :
      n \in 0..MaxFactArg }

FunctionCalls == SpaceFormCalls \cup CallFormCalls \cup SpecialCalls \cup FactCalls

NoStore == [n \in {} |-> Zero]

---------------------------------------------------------------------------
(* The state machine                                                       *)

\* the bookkeeping of the claims about the register: what the call adds
Ledger(c, l) ==
  CASE c.shape = "m+" -> Add(l, c.nums[1])
    [] c.shape = "m-" -> Sub(l, c.nums[1])
    [] c.shape = "mc" -> Zero
    [] OTHER          -> l

\* the submitted evaluate_expression call runs and returns
RunEvaluate ==
  /\ pc = "ready"
  /\ call.op = "evaluate"
  /\ LET r == evaluate_expression(call.expr, MEMORY, Variables)
     IN  /\ result' = r.res
         /\ MEMORY' = r.mem
  /\ memBefore' = MEMORY
  /\ ledger' = Ledger(call, ledger)
  /\ pc' = "done"
  /\ UNCHANGED <<Variables, call, written, lock, threads, run, gui>>

\* evaluate_expression as a function of its input: one call per behaviour,
\* drawn from the set calls
InitOne(calls) ==
  /\ MEMORY = Zero
  /\ Variables = NoStore
  /\ pc = "ready"
  /\ call \in calls
  /\ result = Ok(Zero)
  /\ memBefore = Zero
  /\ ledger = Zero
  /\ written = NoStore
  /\ SingleCaller
  /\ run = NoRun
  /\ gui = NoGui

InitArith == InitOne(ArithCalls)
InitText  == InitOne(TextCalls)
InitFunc  == InitOne(FunctionCalls)

SpecArith == InitArith /\ [][RunEvaluate]_vars
SpecText  == InitText  /\ [][RunEvaluate]_vars
SpecFunc  == InitFunc  /\ [][RunEvaluate]_vars

---------------------------------------------------------------------------
(* A session: calls follow one another on the shared register and store    *)

\* set_variable: the store afterwards and the io::Result returned; the
\* entry is inserted before the variables file is opened, and io tells
\* whether opening and writing the file succeeded
set_variable(name, value, store, io) ==
  [store |-> Insert(store, name, value),
   res   |-> IF io THEN Ok(Zero) ELSE Err("IoError", "")]

\* Option<f64>
Some(v) == [ok |-> TRUE,  v |-> v,    kind |-> "Some", msg |-> ""]
None    == [ok |-> FALSE, v |-> Zero, kind |-> "None", msg |-> ""]

MemArgs == {Num(1), Num(2), Num(-1), Rat(3, 2)}

\* "<x> m+", "<x> m-", "mr", "mc"
MemoryCalls ==
  { EvalCall("m+", <<x>>, <<>>, Show(x) \o Sp \o MPlus) : x \in MemArgs }
    \cup { EvalCall("m-", <<x>>, <<>>, Show(x) \o Sp \o MMinus) : x \in MemArgs }
    \cup { EvalCall("mr", <<>>, <<>>, MR), EvalCall("mc", <<>>, <<>>, MC) }

\* "m+ 1 / 0": a memory operation, then a division by zero;
\* "1 / 0": an error with no memory operation
FailingCalls ==
  { EvalCall("mfail", <<x>>, <<f[2]>>, f \o Sp \o Show(x) \o Sp \o <<"/">> \o Sp \o <<"0">>) :
      x \in {Num(1)}, f \in {MPlus} }
    \cup { EvalCall("fail", <<>>, <<>>, <<"1", " ", "/", " ", "0">>) }

\* the spellings of the names used with the store
Names == {"x", "X", "pi"}

\* "n", "n + 1", "(n + 1) * 2", "2 * -n"
VariableCalls ==
  { EvalCall("var", <<>>, <<n>>, <<n>>) : n \in Names }
    \cup { EvalCall("var+1", <<>>, <<n>>, <<n, " ", "+", " ", "1">>) : n \in Names }
    \cup { EvalCall("(var+1)*2", <<>>, <<n>>,
                    <<"(", n, " ", "+", " ", "1", ")", " ", "*", " ", "2">>) : n \in Names }
    \cup { EvalCall("2*-var", <<>>, <<n>>, <<"2", " ", "*", " ", "-", n>>) : n \in Names }

SetCalls ==
  { [op |-> "set_variable", shape |-> "set", nums |-> <<v>>, syms |-> <<n>>,
     expr |-> <<>>, io |-> io] : n \in Names, v \in {Num(1), Num(2)}, io \in BOOLEAN }
GetCalls ==
  { [op |-> "get_variable", shape |-> "get", nums |-> <<>>, syms |-> <<n>>,
     expr |-> <<>>] : n \in Names }

\* of the memory forms a session submits "1 m+", "mr" and "mc"
SessionMemoryCalls == { c \in MemoryCalls : c.shape # "m-" /\ c.nums \in {<<>>, <<Num(1)>>} }

SessionCalls ==
  SessionMemoryCalls \cup FailingCalls \cup VariableCalls \cup SetCalls \cup GetCalls

NoCall == [op |-> "none", shape |-> "none", nums |-> <<>>, syms |-> <<>>, expr |-> <<>>]

\* the register and the ledger are within the range in which more is added
Within(v) == Fits(v) /\ AbsInt(v.n) <= MaxMem * v.d

MemBounded == Within(MEMORY) /\ Within(ledger)

\* a caller submits the call c
Submit(c) ==
  /\ pc = "done"
  /\ c.shape \in {"m+", "m-", "mfail"} => MemBounded
  /\ call' = c
  /\ pc' = "ready"
  /\ UNCHANGED <<MEMORY, Variables, result, memBefore, ledger, written, lock, threads, run, gui>>

\* the submitted set_variable call runs and returns
RunSetVariable ==
  /\ pc = "ready"
  /\ call.op = "set_variable"
  /\ LET r == set_variable(<<call.syms[1]>>, call.nums[1], Variables, call.io)
     IN  /\ Variables' = r.store
         /\ result' = r.res
  /\ written' = [n \in DOMAIN written \cup {<<Lower(call.syms[1])>>} |->
                   IF n = <<Lower(call.syms[1])>> THEN call.nums[1] ELSE written[n]]
  /\ memBefore' = MEMORY
  /\ pc' = "done"
  /\ UNCHANGED <<MEMORY, call, ledger, lock, threads, run, gui>>

\* the submitted get_variable call runs and returns
RunGetVariable ==
  /\ pc = "ready"
  /\ call.op = "get_variable"
  /\ LET r == get_variable(<<call.syms[1]>>, Variables)
     IN  result' = IF r.some THEN Some(r.v) ELSE None
  /\ memBefore' = MEMORY
  /\ pc' = "done"
  /\ UNCHANGED <<MEMORY, Variables, call, ledger, written, lock, threads, run, gui>>

\* the state of a fresh process: MEMORY is 0.0 and VARIABLES is empty
Init ==
  /\ MEMORY = Zero
  /\ Variables = NoStore
  /\ pc = "done"
  /\ call = NoCall
  /\ result = Ok(Zero)
  /\ memBefore = Zero
  /\ ledger = Zero
  /\ written = NoStore
  /\ SingleCaller
  /\ run = NoRun
  /\ gui = NoGui

Next ==
  \/ \E c \in SessionCalls : Submit(c)
  \/ RunEvaluate
  \/ RunSetVariable
  \/ RunGetVariable

Spec == Init /\ [][Next]_vars

\* the operands that stand for one number: a literal, the named constants
\* and the variable x
ConversionOperands ==
  {"2", "pi", "PI", "e", "E", "tau", "phi", "inf", "infinity", "x", "X"}

\* "<operand> <conversion>"
ConversionCalls ==
  { EvalCall("conv", <<>>, <<o, c>>, <<o, " ", c>>) :
      o \in ConversionOperands, c \in {conversions[i] : i \in 1..Len(conversions)} }

\* one conversion call, on the empty store or after set_variable("x", 3)
InitConv ==
  /\ MEMORY = Zero
  /\ Variables \in {NoStore, set_variable(<<"x">>, Num(3), NoStore, TRUE).store}
  /\ written = Variables
  /\ SingleCaller
  /\ run = NoRun
  /\ gui = NoGui
  /\ pc = "ready"
  /\ call \in ConversionCalls
  /\ result = Ok(Zero)
  /\ memBefore = Zero
  /\ ledger = Zero

SpecConv == InitConv /\ [][RunEvaluate]_vars

\* "(x <conversion>) <conversion>": a conversion applied to the result of another
RoundTripCalls ==
  { EvalCall("round", <<Num(x)>>, <<conversions[p[1]], conversions[p[2]]>>,
             <<"(">> \o Show(Num(x)) \o
               <<" ", conversions[p[1]], ")", " ", conversions[p[2]]>>) :
      x \in -MaxNum..MaxNum,
      p \in { q \in (1..Len(conversions)) \X (1..Len(conversions)) :
                (q[1] + 1) \div 2 = (q[2] + 1) \div 2 /\ q[1] # q[2] } }

\* "100 c_to_f" and "32 f_to_c"
TemperatureCalls ==
  { EvalCall("temp", <<Num(100)>>, <<"c_to_f">>, <<"1", "0", "0", " ", "c_to_f">>),
    EvalCall("temp", <<Num(32)>>, <<"f_to_c">>, <<"3", "2", " ", "f_to_c">>) }

InitRound == InitOne(RoundTripCalls \cup TemperatureCalls)

SpecRound == InitRound /\ [][RunEvaluate]_vars

\* any text over numbers, minus signs, parentheses, a name and mr
AnyAlphabet == {"2", "-", "(", ")", "x", "mr", " "}
AnyCalls == { EvalCall("any", <<>>, <<>>, t) : t \in TextsOver(AnyAlphabet, MaxLen) }

\* one call, with x defined or not and the register at zero or not
InitAny ==
  /\ MEMORY \in {Zero, Num(2)}
  /\ Variables \in {NoStore, set_variable(<<"x">>, Num(3), NoStore, TRUE).store}
  /\ written = Variables
  /\ SingleCaller
  /\ run = NoRun
  /\ gui = NoGui
  /\ pc = "ready"
  /\ call \in AnyCalls
  /\ result = Ok(Zero)
  /\ memBefore = MEMORY
  /\ ledger = MEMORY

SpecAny == InitAny /\ [][RunEvaluate]_vars

---------------------------------------------------------------------------
(* Concurrent callers of the memory forms.  Each caller runs the fast path *)
(* of evaluate_expression; a step is one access to MEMORY or to its lock.  *)

NThreads == 3

\* what the callers run: "1 m+", "2 m-", "mc", "mr"
ThreadCalls ==
  { [op |-> "m+", arg |-> Num(1)], [op |-> "m-", arg |-> Num(2)],
    [op |-> "mc", arg |-> Zero],   [op |-> "mr", arg |-> Zero] }

\* a caller that has not yet reached the lock
Start(c) == [op |-> c.op, arg |-> c.arg, at |-> "start", local |-> Zero, ret |-> Zero]

\* a lock that admits a writer whatever guards are alive
AlwaysFree(l) == TRUE

\* MEMORY.write() returns: no guard is alive
CanWrite(l) == l.writer = 0 /\ l.readers = {}

\* MEMORY.read() returns: no write guard is alive
CanRead(l) == l.writer = 0

At(t, where) == threads' = [threads EXCEPT ![t].at = where]

\* let mut memory = MEMORY.write().unwrap()
AcquireWrite(t) ==
  /\ threads[t].at = "start" /\ threads[t].op \in {"m+", "m-", "mc"}
  /\ CanWrite(lock)
  /\ lock' = [lock EXCEPT !.writer = t]
  /\ At(t, "held")
  /\ UNCHANGED <<MEMORY, Variables, pc, call, result, memBefore, ledger, written, run, gui>>

\* the read of *memory in *memory += value and *memory -= value
LoadMemory(t) ==
  /\ threads[t].at = "held" /\ threads[t].op \in {"m+", "m-"}
  /\ threads' = [threads EXCEPT ![t].at = "loaded", ![t].local = MEMORY]
  /\ UNCHANGED <<MEMORY, Variables, pc, call, result, memBefore, ledger, written, lock, run, gui>>

\* the write of *memory: the sum, the difference, or 0.0
StoreMemory(t) ==
  /\ \/ threads[t].at = "loaded"
     \/ threads[t].at = "held" /\ threads[t].op = "mc"
  /\ MEMORY' = CASE threads[t].op = "m+" -> memory_add(threads[t].local, threads[t].arg)
                  [] threads[t].op = "m-" -> memory_sub(threads[t].local, threads[t].arg)
                  [] threads[t].op = "mc" -> Zero
  /\ At(t, "stored")
  /\ UNCHANGED <<Variables, pc, call, result, memBefore, ledger, written, lock, run, gui>>

\* return Ok(*memory), or Ok(0.0) for mc; the guard is dropped
ReleaseWrite(t) ==
  /\ threads[t].at = "stored"
  /\ threads' = [threads EXCEPT ![t].at = "done",
                                ![t].ret = IF threads[t].op = "mc" THEN Zero ELSE MEMORY]
  /\ lock' = [lock EXCEPT !.writer = IF @ = t THEN 0 ELSE @]
  /\ UNCHANGED <<MEMORY, Variables, pc, call, result, memBefore, ledger, written, run, gui>>

\* let memory = MEMORY.read().unwrap()
AcquireRead(t) ==
  /\ threads[t].at = "start" /\ threads[t].op = "mr"
  /\ CanRead(lock)
  /\ lock' = [lock EXCEPT !.readers = @ \cup {t}]
  /\ At(t, "reading")
  /\ UNCHANGED <<MEMORY, Variables, pc, call, result, memBefore, ledger, written, run, gui>>

\* return Ok(*memory); the guard is dropped
ReleaseRead(t) ==
  /\ threads[t].at = "reading"
  /\ threads' = [threads EXCEPT ![t].at = "done", ![t].ret = MEMORY]
  /\ lock' = [lock EXCEPT !.readers = @ \ {t}]
  /\ UNCHANGED <<MEMORY, Variables, pc, call, result, memBefore, ledger, written, run, gui>>

InitConc ==
  /\ MEMORY \in {Zero, Num(1)}
  /\ memBefore = MEMORY
  /\ ledger = MEMORY
  /\ Variables = NoStore
  /\ written = NoStore
  /\ pc = "done"
  /\ call = NoCall
  /\ result = Ok(Zero)
  /\ run = NoRun
  /\ gui = NoGui
  /\ lock = Free
  /\ threads \in [1..NThreads -> {Start(c) : c \in ThreadCalls}]

NextConc ==
  \E t \in 1..NThreads :
    \/ AcquireWrite(t)
    \/ LoadMemory(t)
    \/ StoreMemory(t)
    \/ ReleaseWrite(t)
    \/ AcquireRead(t)
    \/ ReleaseRead(t)

SpecConc == InitConc /\ [][NextConc]_vars

---------------------------------------------------------------------------
(* evaluate_expression run one loop pass at a time.  A step is one pass of  *)
(* a loop of tokenize, evaluate_complex_expression, evaluate_rpn or fact,   *)
(* or the code between two loops.  A chunk of the text counts for one       *)
(* character.                                                               *)

Loops == {"tokenize", "yard", "pop", "drain", "rpn", "fact"}

\* the call at the first line of evaluate_expression
RunInit(expression) ==
  [phase  |-> "start",
   chars  |-> expression,                 \* what the tokenizer has yet to read
   tok    |-> TokInit,                    \* tokens and current_token
   tokens |-> << >>,                      \* what a for loop has yet to visit
   count  |-> 0,                          \* tokens.len() after tokenize
   held   |-> LeftParen,                  \* the operator whose while loop runs
   yard   |-> YardInit,                   \* output_queue and operator_stack
   rpn    |-> RpnInit(Zero),              \* stack
   fact   |-> [i |-> 2, n |-> 0, acc |-> One, ret |-> "done"],
   passes |-> [l \in Loops |-> 0]]

Pass(rn, loop) == [rn EXCEPT !.passes[loop] = @ + 1]

\* the outcome of a step: the call goes on as rn, the register holding m
Going(rn, m) == [run |-> rn, mem |-> m, done |-> FALSE, res |-> Ok(Zero)]

\* the outcome of a step: the call returns r, the register holding m
Returning(rn, r, m) ==
  [run |-> [rn EXCEPT !.phase = "done"], mem |-> m, done |-> TRUE, res |-> r]

\* the call goes on as rn, or returns the error r of a '?'
Advance(rn, ok, r, m) == IF ok THEN Going(rn, m) ELSE Returning(rn, r, m)

\* the step with the outcome o is taken
Step(o) ==
  /\ run' = o.run
  /\ MEMORY' = o.mem
  /\ result' = IF o.done THEN o.res ELSE result
  /\ pc' = IF o.done THEN "done" ELSE pc
  /\ UNCHANGED <<Variables, call, memBefore, ledger, written, lock, threads, gui>>

\* fact passes its two tests and reaches its loop with the argument v
FactEntry(function, v) ==
  function = <<"fact">> /\ v.k = "rat" /\ ~LtZero(v) /\ ~FractNonZero(v)

\* let mut result = 1.0; the loop from i = 2; ret is where fact was called
EnterFact(rn, v, ret) ==
  [rn EXCEPT !.phase = "fact", !.fact = [i |-> 2, n |-> v.n, acc |-> One, ret |-> ret],
             !.passes["fact"] = 0]

\* result *= i as f64; the product is followed as far as Factorial follows it
FactProduct(acc, i) ==
  IF i <= MaxFact THEN Mul(acc, Num(i)) ELSE Opq("fact", <<Num(i)>>, 1)

\* a pop that leaves the stack as it is
PopNone(st) == st

\* output_queue.push(operator_stack.pop().unwrap())
PopOne(st) ==
  [st EXCEPT !.output_queue = Append(@, Top(st.operator_stack)), !.operator_stack = Pop(@)]

\* the while loop of an operator moves the top of the stack to the output
MovesTop(op, top) ==
  \/ top.t = "Operator" /\ ShouldPop(op, top.v)
  \/ top.t = "Function"

\* the shorthands; tokenize is entered if none answers
BeginWith(a) ==
  IF a.some THEN Returning(run, a.res, a.mem)
  ELSE Going([run EXCEPT !.phase = "tokenize"], MEMORY)

Begun == BeginWith(Shorthand(call.expr, MEMORY))

BeginRun ==
  /\ pc = "ready" /\ call.op = "evaluate" /\ run.phase = "start"
  /\ Step(Begun)

\* one pass of the while loop of tokenize
TokenizeWith(st) ==
  Advance(Pass([run EXCEPT !.tok = st, !.chars = Tail(@)], "tokenize"),
          st.ok, st.res, MEMORY)

Tokenizing == TokenizeWith(TokStep(run.tok, Head(run.chars), Variables))

TokenizePass ==
  /\ run.phase = "tokenize" /\ run.chars # << >>
  /\ Step(Tokenizing)

\* the dispatch of evaluate_expression on the tokens; "fact <n>" reaches the
\* loop of fact, more than three tokens the shunting yard
DispatchRun(tokens) ==
  IF Len(tokens) > 3
  THEN Going([run EXCEPT !.phase = "yard", !.tokens = tokens, !.count = Len(tokens)],
             MEMORY)
  ELSE IF Len(tokens) = 2 /\ is_function(tokens[1]) /\ get_number(tokens[2]).ok
          /\ FactEntry(tokens[1].v, tokens[2].v)
  THEN Going(EnterFact([run EXCEPT !.count = 2], tokens[2].v, "done"), MEMORY)
  ELSE Returning([run EXCEPT !.count = Len(tokens)],
                 Dispatch(tokens, MEMORY).res, Dispatch(tokens, MEMORY).mem)

\* the end of tokenize and the dispatch
EndTokenizeWith(toks) ==
  IF ~toks.ok THEN Returning(run, toks.res, MEMORY) ELSE DispatchRun(toks.tokens)

Tokenization == EndTokenizeWith(TokEnd(LastFlush(run.tok, Variables)))

EndTokenize ==
  /\ run.phase = "tokenize" /\ run.chars = << >>
  /\ Step(Tokenization)

\* one pass of the for loop of evaluate_complex_expression: a push, or the
\* start of the while loop of a RightParen or of an Operator
YardVisit(rn, token) ==
  IF token.t \in {"Number", "Function", "LeftParen"}
  THEN [rn EXCEPT !.yard = YardStep(@, token)]
  ELSE IF token.t = "RightParen" THEN [rn EXCEPT !.phase = "popparen"]
  ELSE [rn EXCEPT !.phase = "popops", !.held = token]

YardPass ==
  /\ run.phase = "yard" /\ run.tokens # << >>
  /\ Step(Going(YardVisit(Pass([run EXCEPT !.tokens = Tail(@)], "yard"),
                          Head(run.tokens)), MEMORY))

\* one pass of the while loop of a RightParen: the LeftParen is removed, and a
\* function on top after it; anything else is moved to the output
PopParen ==
  IF Top(run.yard.operator_stack).t = "LeftParen"
  THEN [run EXCEPT !.phase = "yard",
                   !.yard = PopFunction([@ EXCEPT !.operator_stack = Pop(@)])]
  ELSE [run EXCEPT !.yard = PopOne(@)]

PopParenPass ==
  /\ run.phase = "popparen" /\ run.yard.operator_stack # << >>
  /\ Step(Going(Pass(PopParen, "pop"), MEMORY))

\* the stack ran empty before a LeftParen was found
PopParenExit ==
  /\ run.phase = "popparen" /\ run.yard.operator_stack = << >>
  /\ Step(Returning(run, Err("SyntaxError", "Mismatched parentheses: missing '('"),
                    MEMORY))

\* one pass of the while loop of an Operator that moves the top to the output
PopOperatorsPass ==
  /\ run.phase = "popops" /\ run.yard.operator_stack # << >>
  /\ MovesTop(run.held.v, Top(run.yard.operator_stack))
  /\ Step(Going(Pass([run EXCEPT !.yard = PopOne(@)], "pop"), MEMORY))

\* the while loop of an Operator ends; operator_stack.push(token)
PushOperator ==
  /\ run.phase = "popops"
  /\ IF run.yard.operator_stack = << >> THEN TRUE
     ELSE ~MovesTop(run.held.v, Top(run.yard.operator_stack))
  /\ Step(Going([run EXCEPT !.phase = "yard",
                            !.yard.operator_stack = Append(@, run.held)], MEMORY))

\* the for loop of evaluate_complex_expression ends
EndYard ==
  /\ run.phase = "yard" /\ run.tokens = << >>
  /\ Step(Going([run EXCEPT !.phase = "drain"], MEMORY))

\* one pass of the loop that pops the remaining operators
Draining ==
  IF Top(run.yard.operator_stack).t = "LeftParen"
  THEN Returning(Pass(run, "drain"),
                 Err("SyntaxError", "Mismatched parentheses: missing ')'"), MEMORY)
  ELSE IF Top(run.yard.operator_stack).t = "RightParen"
  THEN Returning(Pass(run, "drain"),
                 Err("SyntaxError", "Mismatched parentheses: extra ')'"), MEMORY)
  ELSE Going(Pass([run EXCEPT !.yard = PopOne(@)], "drain"), MEMORY)

DrainPass ==
  /\ run.phase = "drain" /\ run.yard.operator_stack # << >>
  /\ Step(Draining)

\* evaluate_rpn(output_queue) is called
EndDrain ==
  /\ run.phase = "drain" /\ run.yard.operator_stack = << >>
  /\ Step(Going([run EXCEPT !.phase = "rpn", !.tokens = run.yard.output_queue,
                            !.rpn = RpnInit(MEMORY)], MEMORY))

\* one pass of the for loop of evaluate_rpn; fact reaches its own loop
RpnWith(rn, st) == Advance([rn EXCEPT !.rpn = st], st.ok, st.res, st.mem)

Evaluating ==
  IF /\ is_function(Head(run.tokens)) /\ run.rpn.stack # << >>
     /\ FactEntry(Head(run.tokens).v, Top(run.rpn.stack))
  THEN Going(EnterFact(Pass([run EXCEPT !.tokens = Tail(@)], "rpn"),
                       Top(run.rpn.stack), "rpn"), MEMORY)
  ELSE RpnWith(Pass([run EXCEPT !.tokens = Tail(@)], "rpn"),
               RpnStep(run.rpn, Head(run.tokens)))

RpnPass ==
  /\ run.phase = "rpn" /\ run.tokens # << >>
  /\ Step(Evaluating)

\* the for loop of evaluate_rpn ends
EndRpnWith(out) == Returning(run, out.res, out.mem)

EndRpn ==
  /\ run.phase = "rpn" /\ run.tokens = << >>
  /\ Step(EndRpnWith(RpnEnd(run.rpn)))

\* one pass of  for i in 2..=value as u64
FactPass ==
  /\ run.phase = "fact" /\ run.fact.i <= run.fact.n
  /\ Step(Going(Pass([run EXCEPT !.fact.acc = FactProduct(@, run.fact.i),
                                 !.fact.i = @ + 1], "fact"), MEMORY))

\* Ok(result): back in evaluate_rpn, or out of evaluate_expression
Factored ==
  IF run.fact.ret = "done"
  THEN Returning(run, Ok(run.fact.acc), MEMORY)
  ELSE Going([run EXCEPT !.phase = "rpn",
                         !.rpn = RpnFunction(@, [res |-> Ok(run.fact.acc),
                                                 mem |-> @.mem])], MEMORY)

EndFact ==
  /\ run.phase = "fact" /\ run.fact.i > run.fact.n
  /\ Step(Factored)

\* texts without blanks, "fact n", "a op b op c" with and without parentheses,
\* and the memory shorthands
RunAlphabet == {"2", "+", "*", "(", ")", "fact"}
RunCalls ==
  { EvalCall("text", <<>>, <<>>, t) : t \in TextsOver(RunAlphabet, MaxLen) }
    \cup FactCalls
    \cup { c \in ChainCalls \cup LeftGroupCalls \cup RightGroupCalls :
             \A i \in 1..Len(c.nums) : c.nums[i] = Num(2) }
    \cup MemoryCalls

InitRun ==
  /\ MEMORY = Zero
  /\ Variables = NoStore
  /\ pc = "ready"
  /\ call \in RunCalls
  /\ result = Ok(Zero)
  /\ memBefore = Zero
  /\ ledger = Zero
  /\ written = NoStore
  /\ SingleCaller
  /\ run = RunInit(call.expr)
  /\ gui = NoGui

NextRun ==
  \/ BeginRun
  \/ TokenizePass
  \/ EndTokenize
  \/ YardPass
  \/ PopParenPass
  \/ PopParenExit
  \/ PopOperatorsPass
  \/ PushOperator
  \/ EndYard
  \/ DrainPass
  \/ EndDrain
  \/ RpnPass
  \/ EndRpn
  \/ FactPass
  \/ EndFact

SpecRun == InitRun /\ [][NextRun]_vars

\* the register alone, from the state mc leaves, under the four memory forms
NextMem ==
  \/ \E c \in MemoryCalls : Submit(c)
  \/ RunEvaluate

SpecMem == Init /\ [][NextMem]_vars

---------------------------------------------------------------------------
(* What the claims expect of an operator                                   *)

\* binding strength as the specification states it: ^ over * / % over + -
Tier(o) == IF o = "^" THEN 3 ELSE IF o \in {"*", "/", "%"} THEN 2 ELSE 1

\* the operator o applied to two outcomes: the first error wins, and a zero
\* right operand of / or % is a MathError
Expected(o, L, R) ==
  IF ~L.ok THEN L
  ELSE IF ~R.ok THEN R
  ELSE CASE o = "+" -> Ok(Add(L.v, R.v))
         [] o = "-" -> Ok(Sub(L.v, R.v))
         [] o = "*" -> Ok(Mul(L.v, R.v))
         [] o = "/" -> IF IsZero(R.v) THEN Err("MathError", "") ELSE Ok(Div(L.v, R.v))
         [] o = "%" -> IF IsZero(R.v) THEN Err("MathError", "") ELSE Ok(Rem(L.v, R.v))
         [] o = "^" -> Ok(Pow(L.v, R.v))

\* the same value, or an error of the same kind
SameOutcome(r, e) == r.ok = e.ok /\ r.kind = e.kind /\ (r.ok => r.v = e.v)

GroupLeft(c)  ==
  Expected(c.syms[2], Expected(c.syms[1], Ok(c.nums[1]), Ok(c.nums[2])), Ok(c.nums[3]))
GroupRight(c) ==
  Expected(c.syms[1], Ok(c.nums[1]), Expected(c.syms[2], Ok(c.nums[2]), Ok(c.nums[3])))

Returned(shape) == pc = "done" /\ call.op = "evaluate" /\ call.shape = shape

---------------------------------------------------------------------------
(* C1: "a + b * c" is a + (b*c) and "(a + b) * c" is (a+b)*c; of two       *)
(* neighbouring operators the one of the higher tier (^ over * / % over    *)
(* + -) is applied first, and a parenthesized group is evaluated before    *)
(* the operators around it.                                                *)
C1_Precedence ==
  /\ Returned("chain") /\ Tier(call.syms[2]) > Tier(call.syms[1])
       => SameOutcome(result, GroupRight(call))
  /\ Returned("chain") /\ Tier(call.syms[1]) > Tier(call.syms[2])
       => SameOutcome(result, GroupLeft(call))
  /\ Returned("lgroup") => SameOutcome(result, GroupLeft(call))
  /\ Returned("rgroup") => SameOutcome(result, GroupRight(call))

\* "2 + 3 * 2" returned 8
C1_Witness ==
  /\ Returned("chain")
  /\ call.nums = <<Num(2), Num(3), Num(2)>> /\ call.syms = <<"+", "*">>
  /\ result = Ok(Num(8))

(* C2: operators of one tier group left to right, except ^, which groups   *)
(* right to left: 2 ^ 3 ^ 2 = 512.                                         *)
C2_Associativity ==
  Returned("chain") /\ Tier(call.syms[1]) = Tier(call.syms[2])
    => SameOutcome(result, IF call.syms[1] = "^" THEN GroupRight(call)
                            ELSE GroupLeft(call))

\* "2 ^ 3 ^ 2" returned 512
C2_Witness ==
  /\ Returned("chain")
  /\ call.nums = <<Num(2), Num(3), Num(2)>> /\ call.syms = <<"^", "^">>
  /\ result = Ok(Num(512))

(* C8: for literals a and b, negative ones written with a leading '-',     *)
(* and op among + - *, "a op b" returns a op b, a on the left.             *)
C8_BinaryOperands ==
  Returned("binary") /\ call.syms[1] \in {"+", "-", "*"}
    => result = CASE call.syms[1] = "+" -> Ok(Add(call.nums[1], call.nums[2]))
                  [] call.syms[1] = "-" -> Ok(Sub(call.nums[1], call.nums[2]))
                  [] call.syms[1] = "*" -> Ok(Mul(call.nums[1], call.nums[2]))

\* "-2 - -3" returned 1
C8_Witness ==
  /\ Returned("binary")
  /\ call.nums = <<Num(-2), Num(-3)>> /\ call.syms = <<"-">>
  /\ call.expr = <<"-", "2", " ", "-", " ", "-", "3">>
  /\ result = Ok(Num(1))

(* C9: / or % applied to a zero right operand returns MathError, as the    *)
(* whole expression or inside a larger one; "a / b" with b nonzero         *)
(* returns a/b.                                                            *)
C9_DivisionByZero ==
  /\ Returned("binary") /\ call.syms[1] \in {"/", "%"} /\ IsZero(call.nums[2])
       => ~result.ok /\ result.kind = "MathError"
  /\ Returned("binary") /\ call.syms[1] = "/" /\ ~IsZero(call.nums[2])
       => result = Ok(Div(call.nums[1], call.nums[2]))
  /\ Returned("zerodiv") => ~result.ok /\ result.kind = "MathError"
  /\ Returned("rgroup") /\ call.syms[1] \in {"/", "%"}
       /\ Expected(call.syms[2], Ok(call.nums[2]), Ok(call.nums[3])) = Ok(Zero)
       => ~result.ok /\ result.kind = "MathError"
  /\ Returned("chain") /\ call.syms[2] \in {"/", "%"} /\ IsZero(call.nums[3])
       => ~result.ok /\ result.kind = "MathError"
  /\ Returned("chain") /\ call.syms[1] \in {"/", "%"} /\ IsZero(call.nums[2])
       /\ call.syms[2] # "^"
       => ~result.ok /\ result.kind = "MathError"

\* "1 + 3 / (2 - 2)" returned a MathError
C9_Witness ==
  /\ Returned("zerodiv")
  /\ call.nums = <<Num(1), Num(3), Num(2)>> /\ call.syms = <<"/">>
  /\ ~result.ok /\ result.kind = "MathError"

---------------------------------------------------------------------------
(* Unbalanced parentheses                                                  *)

\* the nesting depth after the text, -1 once a ')' has no '(' to close
RECURSIVE ParenDepth(_, _)
ParenDepth(t, d) ==
  IF t = <<>> THEN d
  ELSE IF Head(t) = "(" THEN ParenDepth(Tail(t), d + 1)
  ELSE IF Head(t) = ")" THEN (IF d = 0 THEN -1 ELSE ParenDepth(Tail(t), d - 1))
  ELSE ParenDepth(Tail(t), d)

\* an unclosed '(' or an unmatched ')'
Unbalanced(t) == ParenDepth(t, 0) # 0

(* C5: every expression with unbalanced parentheses, whatever its length   *)
(* in tokens, fails with an error of kind SyntaxError.  Stated for the     *)
(* texts whose every token is recognised, so that no unknown identifier    *)
(* competes for the error.                                                 *)
C5_UnbalancedIsSyntaxError ==
  Returned("text") /\ Unbalanced(call.expr) /\ tokenize(call.expr, Variables).ok
    => ~result.ok /\ result.kind = "SyntaxError"

(* C6: evaluate never returns a value for an expression with unbalanced    *)
(* parentheses: an unmatched '(' or ')' is never dropped.                  *)
C6_UnbalancedNeverValue ==
  Returned("text") /\ Unbalanced(call.expr) => ~result.ok

\* "(2-2" went through the shunting yard and failed
C6_Witness ==
  /\ Returned("text")
  /\ call.expr = <<"(", "2", "-", "2">>
  /\ ~result.ok /\ result.msg = "Mismatched parentheses: missing ')'"

---------------------------------------------------------------------------
(* C10: for every built-in unary function f and literal x, negative ones   *)
(* included, "f x" and "f(x)" give the same outcome: the same value, or    *)
(* an error of the same kind.                                              *)
SpaceForm(f, x) == <<f>> \o Sp \o Show(x)
CallForm(f, x)  == <<f, "(">> \o Show(x) \o <<")">>

C10_FormsAgree ==
  /\ Returned("fspace") =>
       SameOutcome(result,
                   evaluate_expression(CallForm(call.syms[1], call.nums[1]),
                                       memBefore, Variables).res)
  /\ Returned("fcall") =>
       SameOutcome(result,
                   evaluate_expression(SpaceForm(call.syms[1], call.nums[1]),
                                       memBefore, Variables).res)

\* "sqrt(-1)" went through the shunting yard and returned the ArgumentError of "sqrt -1"
C10_Witness ==
  /\ Returned("fcall")
  /\ call.syms = <<"sqrt">> /\ call.nums = <<Num(-1)>>
  /\ ~result.ok /\ result.kind = "ArgumentError"

---------------------------------------------------------------------------
(* C3: starting from mc, after any sequence of "<x> m+", "<x> m-", "mr"    *)
(* and "mc" the register is the sum of the m+ arguments minus the sum of   *)
(* the m- arguments since the latest mc; m+ and m- return the new register *)
(* value, mr the current one, mc returns 0.                                *)
C3_MemoryLedger ==
  /\ MEMORY = ledger
  /\ pc = "done" /\ call.op = "evaluate" =>
       result = IF call.shape = "mc" THEN Ok(Zero) ELSE Ok(ledger)

\* "1.5 m+" returned 2.5 on a register that held 1
C3_Witness ==
  /\ Returned("m+")
  /\ call.nums = <<Rat(3, 2)>>
  /\ memBefore = Num(1)
  /\ result = Ok(Rat(5, 2)) /\ MEMORY = Rat(5, 2)

(* C4: if an evaluate call returns an error, the register holds the value  *)
(* it held before the call, also when the expression contains a memory     *)
(* operation and fails later.                                              *)
C4_ErrorKeepsRegister ==
  pc = "done" /\ call.op = "evaluate" /\ ~result.ok => MEMORY = memBefore

---------------------------------------------------------------------------
(* Names of the store                                                      *)

\* the name a set_variable call or an identifier stands for, letter case aside
Fold(n) == <<Lower(n)>>

\* a spelling that add_token resolves before it looks at the store
Reserved(n) ==
  \/ parse_f64(<<n>>).ok
  \/ Lower(n) \in {"pi", "e", "tau", "phi", "inf", "infinity"}
  \/ n \in MathFunctions \cup {"mr", "mc"}
  \/ is_valid_conversion(<<n>>)

Defined(n) == Fold(n) \in DOMAIN written

\* the outcome of the last call when the identifier n stands for the value w
ReadAs(w) ==
  CASE call.shape = "var"       -> Ok(w)
    [] call.shape = "var+1"     -> Ok(Add(w, Num(1)))
    [] call.shape = "(var+1)*2" -> Ok(Mul(Add(w, Num(1)), Num(2)))
    [] call.shape = "2*-var"    -> Ok(Mul(Num(2), Neg(w)))

VariableShapes == {"var", "var+1", "(var+1)*2", "2*-var"}

(* C7 as stated: after set_variable(n, v) evaluate reads v wherever the    *)
(* identifier n appears, in any letter case; the latest set_variable of    *)
(* the name wins, and get_variable returns that value.                     *)
C7_ReadsEverywhere ==
  /\ pc = "done" /\ call.op = "evaluate" /\ call.shape \in VariableShapes
       /\ Defined(call.syms[1])
       => result = ReadAs(written[Fold(call.syms[1])])
  /\ pc = "done" /\ call.op = "get_variable" /\ Defined(call.syms[1])
       => result = Some(written[Fold(call.syms[1])])

(* C7 amended: after set_variable(n, v), where n is in no letter case a    *)
(* numeric literal, a constant, a built-in function, a memory operation or *)
(* a conversion identifier, the tokenizer reads v for every pending buffer *)
(* that spells n in any letter case, that is where n stands as an operand  *)
(* of its own, not directly after a '-' that starts a literal; the latest  *)
(* set_variable of the name wins, and get_variable returns that value for  *)
(* every name.                                                             *)
C7_ReadsOwnToken ==
  /\ pc = "done" /\ call.op = "evaluate" /\ call.shape \in VariableShapes \ {"2*-var"}
       /\ Defined(call.syms[1]) /\ ~Reserved(Lower(call.syms[1]))
       => result = ReadAs(written[Fold(call.syms[1])])
  /\ pc = "done" /\ call.op = "get_variable"
       => result = IF Defined(call.syms[1]) THEN Some(written[Fold(call.syms[1])])
                   ELSE None

\* "(X + 1) * 2" returned 6 after set_variable("X", 1) and then set_variable("x", 2)
C7_Witness ==
  /\ Returned("(var+1)*2")
  /\ call.syms = <<"X">>
  /\ written = [n \in {<<"x">>} |-> Num(2)]
  /\ result = Ok(Num(6))

---------------------------------------------------------------------------
(* Domains of the built-in functions                                       *)

ArgNegative(x)    == x.k \in {"rat", "inf"} /\ x.n < 0
ArgNonPositive(x) == ArgNegative(x) \/ (x.k = "rat" /\ x.n = 0)
ArgOutsideUnit(x) == x.k = "inf" \/ (x.k = "rat" /\ (x.n > x.d \/ x.n < -x.d))
ArgNonInteger(x)  == ~(x.k = "rat" /\ x.d = 1)

FunctionShapes == {"fspace", "fcall", "fspecial"}
TotalFunctions == {"sin", "cos", "tan", "atan", "exp", "abs", "floor", "ceil"}

(* C11: sqrt of a negative value, log or ln of a value <= 0, asin or acos  *)
(* of a value outside [-1, 1] and fact of a negative or non-integer value  *)
(* return ArgumentError; sin, cos, tan, atan, exp, abs, floor and ceil     *)
(* return a value for every numeric argument.                              *)
C11_DomainErrors ==
  pc = "done" /\ call.op = "evaluate" /\ call.shape \in FunctionShapes =>
    LET f == call.syms[1]
        x == call.nums[1]
        refused == ~result.ok /\ result.kind = "ArgumentError"
    IN  /\ f = "sqrt" /\ ArgNegative(x) => refused
        /\ f \in {"log", "ln"} /\ ArgNonPositive(x) => refused
        /\ f \in {"asin", "acos"} /\ ArgOutsideUnit(x) => refused
        /\ f = "fact" /\ (ArgNegative(x) \/ ArgNonInteger(x)) => refused
        /\ f \in TotalFunctions => result.ok

\* "fact 1.5" was refused: the argument is not an integer
C11_Witness ==
  /\ Returned("fspace")
  /\ call.syms = <<"fact">> /\ call.nums = <<Rat(3, 2)>>
  /\ result = Err("ArgumentError", "Factorial requires an integer value")

---------------------------------------------------------------------------
\* n! : the product of the integers 2..n
RECURSIVE Product(_)
Product(n) == IF n <= 1 THEN 1 ELSE n * Product(n - 1)

(* C12: for every integer n >= 0, "fact n" returns n!, the product of the  *)
(* integers 2..n, with fact 0 = fact 1 = 1.                                *)
C12_Factorial ==
  Returned("fact") => result = Ok(Num(Product(call.nums[1].n)))

\* "fact 5" returned 120
C12_Witness ==
  /\ Returned("fact")
  /\ call.nums = <<Num(5)>>
  /\ result = Ok(Num(120))

---------------------------------------------------------------------------
\* the number an operand stands for
OperandValue(o) ==
  CASE o = "2"                   -> Num(2)
    [] o \in {"pi", "PI"}        -> PI
    [] o \in {"e", "E"}          -> E
    [] o = "tau"                 -> TAU
    [] o = "phi"                 -> PHI
    [] o \in {"inf", "infinity"} -> Inf(1)
    [] o \in {"x", "X"}          -> written[<<"x">>]

StandsForNumber(o) == o \in {"x", "X"} => <<"x">> \in DOMAIN written

(* C13: for every operand that stands for a single number (a literal, a    *)
(* constant pi, e, tau, phi, inf, infinity in any letter case, a defined   *)
(* variable) followed by whitespace and a conversion identifier, evaluate  *)
(* returns the conversion applied to that number.                          *)
C13_OperandConversion ==
  Returned("conv") /\ StandsForNumber(call.syms[1]) =>
    result = evaluate_function(<<call.syms[2]>>, OperandValue(call.syms[1]), memBefore).res

---------------------------------------------------------------------------
(* Enclosures: a value of the model lies between lo / Scale and hi / Scale *)

Scale == 1000

Min4(a, b, c, d) == CHOOSE m \in {a, b, c, d} : \A o \in {a, b, c, d} : m <= o
Max4(a, b, c, d) == CHOOSE m \in {a, b, c, d} : \A o \in {a, b, c, d} : m >= o
CeilDiv(a, b) == -((-a) \div b)

\* the product of two enclosures, and the quotient by a positive one
EncloseMul(a, b) ==
  [lo |-> Min4(a.lo * b.lo, a.lo * b.hi, a.hi * b.lo, a.hi * b.hi) \div Scale,
   hi |-> CeilDiv(Max4(a.lo * b.lo, a.lo * b.hi, a.hi * b.lo, a.hi * b.hi), Scale)]
EncloseDiv(a, b) ==
  [lo |-> Min4((a.lo * Scale) \div b.lo, (a.lo * Scale) \div b.hi,
               (a.hi * Scale) \div b.lo, (a.hi * Scale) \div b.hi),
   hi |-> Max4(CeilDiv(a.lo * Scale, b.lo), CeilDiv(a.lo * Scale, b.hi),
               CeilDiv(a.hi * Scale, b.lo), CeilDiv(a.hi * Scale, b.hi))]

\* the enclosure of a rational or of pi
EncloseLeaf(v) ==
  IF v.k = "rat"
  THEN [lo |-> (v.n * Scale) \div v.d, hi |-> CeilDiv(v.n * Scale, v.d)]
  ELSE [lo |-> (3141 * Scale) \div 1000, hi |-> CeilDiv(3142 * Scale, 1000)]

\* a product or quotient as the factors above and below the line
RECURSIVE Above(_), Below(_)
Above(v) ==
  IF v.k = "irr" /\ v.f = "*" THEN Above(v.a[1]) \o Above(v.a[2])
  ELSE IF v.k = "irr" /\ v.f = "/" THEN Above(v.a[1]) \o Below(v.a[2])
  ELSE <<v>>
Below(v) ==
  IF v.k = "irr" /\ v.f = "*" THEN Below(v.a[1]) \o Below(v.a[2])
  ELSE IF v.k = "irr" /\ v.f = "/" THEN Below(v.a[1]) \o Above(v.a[2])
  ELSE << >>

Without(s, i) == SubSeq(s, 1, i - 1) \o SubSeq(s, i + 1, Len(s))

\* the factors left above (side 1) and below (side 2) after cancelling equal ones
RECURSIVE Cancelled(_, _)
Cancelled(up, down) ==
  IF \E i \in 1..Len(up), j \in 1..Len(down) : up[i] = down[j]
  THEN LET p == CHOOSE q \in (1..Len(up)) \X (1..Len(down)) : up[q[1]] = down[q[2]]
       IN  Cancelled(Without(up, p[1]), Without(down, p[2]))
  ELSE <<up, down>>

RECURSIVE EncloseProduct(_)
EncloseProduct(fs) ==
  IF fs = << >> THEN [lo |-> Scale, hi |-> Scale]
  ELSE EncloseMul(EncloseProduct(SubSeq(fs, 1, Len(fs) - 1)), EncloseLeaf(fs[Len(fs)]))

EncloseFraction(sides) == EncloseDiv(EncloseProduct(sides[1]), EncloseProduct(sides[2]))

\* the enclosure of a rational, or of a product or quotient of rationals and pi
Enclose(v) == EncloseFraction(Cancelled(Above(v), Below(v)))

\* v is x up to Tolerance / Scale
Tolerance == 10
Near(v, x) ==
  /\ Enclose(v).lo >= x.n * Scale - Tolerance
  /\ Enclose(v).hi <= x.n * Scale + Tolerance

(* C14: converting a value and then converting the result with the inverse *)
(* conversion returns approximately the original value, for each of the    *)
(* six conversion pairs in both directions; 100 c_to_f = 212 and           *)
(* 32 f_to_c = 0.                                                          *)
C14_RoundTrip ==
  /\ Returned("round") => result.ok /\ Near(result.v, call.nums[1])
  /\ Returned("temp") /\ call.syms = <<"c_to_f">> => result = Ok(Num(212))
  /\ Returned("temp") /\ call.syms = <<"f_to_c">> => result = Ok(Zero)

\* "(2 km_to_mi) mi_to_km" returned 2 * 0.621371 * 1.60934, which is not 2 exactly
C14_Witness ==
  /\ Returned("round")
  /\ call.nums = <<Num(2)>> /\ call.syms = <<"km_to_mi", "mi_to_km">>
  /\ result.ok /\ result.v.k = "irr" /\ Near(result.v, Num(2))

\* the variants of CalculatorError
CalculatorError == {"SyntaxError", "MathError", "ArgumentError", "ParseError"}

(* C15: evaluate never panics or aborts: for every input, with any content *)
(* of the Variable Store and any value of the memory register, it returns  *)
(* a number or a CalculatorError.                                          *)
C15_NeverPanics ==
  Returned("any") => result.ok \/ result.kind \in CalculatorError

\* "()-2" reached evaluate_rpn with one operand for the operator and was refused
C15_Witness ==
  /\ Returned("any")
  /\ result = Err("SyntaxError", "Invalid expression: not enough operands")

---------------------------------------------------------------------------
(* Sequential orders of concurrent writes                                  *)

Writers == {t \in DOMAIN threads : threads[t].op \in {"m+", "m-", "mc"}}
Readers == {t \in DOMAIN threads : threads[t].op = "mr"}
AllReturned == threads # << >> /\ \A t \in DOMAIN threads : threads[t].at = "done"

\* the orders in which the callers of the set S can run one after the other
Orders(S) ==
  { o \in [1..Cardinality(S) -> S] : \A i, j \in 1..Cardinality(S) : i # j => o[i] # o[j] }

\* a write applied to the register m as a whole
Applied(c, m) ==
  CASE c.op = "m+" -> Add(m, c.arg)
    [] c.op = "m-" -> Sub(m, c.arg)
    [] c.op = "mc" -> Zero

\* the register after the first k writes of the order o
RECURSIVE After(_, _)
After(o, k) == IF k = 0 THEN memBefore ELSE Applied(threads[o[k]], After(o, k - 1))

\* the order o explains the register, what every write returned and every mr
Explains(o) ==
  /\ MEMORY = After(o, Len(o))
  /\ \A k \in 1..Len(o) : threads[o[k]].ret = After(o, k)
  /\ \A r \in Readers : \E k \in 0..Len(o) : threads[r].ret = After(o, k)

(* C16: when several callers run m+, m-, mc and mr concurrently, every     *)
(* write is applied atomically: the final register is the result of the    *)
(* writes in some sequential order, and every mr returns a value the       *)
(* register held between two writes.                                       *)
C16_Atomic == AllReturned => \E o \in Orders(Writers) : Explains(o)

\* two callers of "1 m+" and one of mr have returned, and the register holds
\* both additions
C16_Witness ==
  /\ AllReturned
  /\ Cardinality({t \in Writers : threads[t].op = "m+"}) = 2
  /\ Readers # {}
  /\ MEMORY = Add(memBefore, Num(2))

(* C17: if set_variable returns an error, the Variable Store is unchanged: *)
(* get_variable for that name returns what it returned before the call.    *)
C17_ErrorKeepsStore ==
  [][RunSetVariable /\ ~result'.ok =>
       get_variable(<<call.syms[1]>>, Variables') = get_variable(<<call.syms[1]>>, Variables)]_vars

\* the names a Function token may carry
RecognizedFunction(nm) ==
  \/ Len(nm) = 1 /\ nm[1] \in MathFunctions
  \/ nm \in {MPlus, MMinus, MR, MC}
  \/ InConversions(nm)

\* the tokens tokenize returns for the text of the call, if it returns any
Emitted ==
  IF tokenize(call.expr, Variables).ok THEN tokenize(call.expr, Variables).tokens
  ELSE << >>

(* C18: every Function token that tokenize emits carries a name of the     *)
(* recognized set: a built-in math function, m+, m-, mr, mc or a           *)
(* conversion identifier; any other identifier that is not a defined       *)
(* variable makes tokenize fail.                                           *)
C18_FunctionNamesRecognized ==
  Returned("text") =>
    \A i \in 1..Len(Emitted) : is_function(Emitted[i]) => RecognizedFunction(Emitted[i].v)

\* the general path on the text of the call: tokenize, then the dispatch on the
\* tokens, from the register the call started with
GeneralPath == Tokenized(tokenize(call.expr, Variables), memBefore)

\* the calls a shorthand of evaluate_expression answers
Shorthands == {"m+", "m-", "mr", "mc", "conv"}

(* C19: for every input that a shorthand fast path of evaluate accepts,    *)
(* the general path (tokenize, the token-count dispatch, shunting yard and *)
(* RPN evaluation) on the same input returns the same value and has the    *)
(* same effect on the memory register.                                     *)
C19_FastPathRefinesGeneral ==
  pc = "done" /\ call.op = "evaluate" /\ call.shape \in Shorthands =>
    GeneralPath = [res |-> result, mem |-> MEMORY]

---------------------------------------------------------------------------
(* Termination                                                             *)

\* a call run pass by pass has returned
RunDone == run.phase = "done"

\* the passes of each loop so far are within what the input allows
WithinBounds ==
  /\ run.passes["tokenize"] <= Len(call.expr)
  /\ run.count <= Len(call.expr) + 1
  /\ run.passes["yard"] <= run.count
  /\ run.passes["pop"] + run.passes["drain"] <= run.count
  /\ run.passes["rpn"] <= run.count
  /\ run.passes["fact"] <= run.fact.n

\* a call that has returned has returned what evaluate_expression returns
ReturnsTheSame ==
  RunDone => [res |-> result, mem |-> MEMORY]
               = evaluate_expression(call.expr, memBefore, Variables)

\* the passes the loop of fact has yet to make
PassesLeft(f) == IF f.i > f.n THEN 0 ELSE f.n + 1 - f.i

\* what is left of the call, most significant first: the part of the code it
\* is in, what the loop of that part has yet to visit, whether an inner loop
\* runs, and what the inner loop has yet to do
Rank ==
  CASE run.phase = "start"    -> <<5, 0, 0, 0>>
    [] run.phase = "tokenize" -> <<4, Len(run.chars), 0, 0>>
    [] run.phase = "yard"     -> <<3, Len(run.tokens), 0, 0>>
    [] run.phase \in {"popparen", "popops"}
                              -> <<3, Len(run.tokens), 1, Len(run.yard.operator_stack)>>
    [] run.phase = "drain"    -> <<2, Len(run.yard.operator_stack), 0, 0>>
    [] run.phase = "rpn"      -> <<1, Len(run.tokens), 0, 0>>
    [] run.phase = "fact"     -> <<1, Len(run.tokens), 1, PassesLeft(run.fact)>>
    [] run.phase = "done"     -> <<0, 0, 0, 0>>

\* the lexicographic order on ranks, which has no infinite descent
Below4(r, s) ==
  \E k \in 1..4 : r[k] < s[k] /\ \A j \in 1..(k - 1) : r[j] = s[j]

RankInRange == \A k \in 1..4 : Rank[k] >= 0

(* C20: every evaluate call terminates: the tokenizer loop, the shunting-  *)
(* yard loops with their inner pop loops, the RPN loop and the factorial   *)
(* loop each finish after a number of passes bounded by the input length   *)
(* and, for fact, by its argument.  Every step brings the call closer to   *)
(* its return, and it returns what evaluate_expression returns.            *)
C20_Terminates ==
  /\ [](WithinBounds /\ RankInRange /\ ReturnsTheSame)
  /\ [][Below4(Rank', Rank)]_vars

\* "(2 + 2) * 2" or "(2 ^ 2) * 2" has returned 8 after passes of every loop but
\* that of fact
C20_Witness ==
  /\ RunDone /\ call.shape = "lgroup" /\ result = Ok(Num(8))
  /\ \A l \in Loops \ {"fact"} : run.passes[l] > 0

---------------------------------------------------------------------------
\* the text holds none of m+, m- and mc
NoMemoryWrite(text) ==
  /\ \A i \in 1..Len(text) : text[i] # "mc"
  /\ \A i \in 1..(Len(text) - 1) : ~(text[i] = "m" /\ text[i + 1] \in {"+", "-"})

(* C21: the only shared state an evaluate call changes is the memory       *)
(* register, and only by m+, m- or mc: evaluating mr or any expression     *)
(* with none of m+, m-, mc, whether it succeeds or fails, leaves the       *)
(* register unchanged, and no evaluate call changes the Variable Store.    *)
C21_EvaluateFrame ==
  [][RunEvaluate =>
       /\ Variables' = Variables
       /\ NoMemoryWrite(call.expr) => MEMORY' = MEMORY]_vars

\* mr has returned a register that is not zero and has left it as it was
C21_Witness ==
  /\ Returned("mr") /\ NoMemoryWrite(call.expr)
  /\ ~IsZero(MEMORY) /\ MEMORY = memBefore /\ result = Ok(MEMORY)

---------------------------------------------------------------------------
(* Shadowed names: one variable stored under a name that an earlier step   *)
(* of add_token may claim, and one identifier evaluated in four contexts   *)

ShadowNames == {"pi", "PI", "sqrt", "SQRT", "2", "x", "X"}
Spellings == {"pi", "PI", "Pi", "sqrt", "SQRT", "2", "x", "X"}
ShadowValue == Num(7)

ShadowText(shape, s) ==
  CASE shape = "var"   -> <<s>>
    [] shape = "var+1" -> <<s, " ", "+", " ", "1">>
    [] shape = "paren" -> <<"(", s, " ", "+", " ", "1", ")">>
    [] shape = "apply" -> <<s, " ", "4">>

ShadowCalls ==
  { EvalCall(sh, <<>>, <<s>>, ShadowText(sh, s)) :
      sh \in {"var", "var+1", "paren", "apply"}, s \in Spellings }

InitShadow ==
  /\ MEMORY \in {Zero, Num(2)}
  /\ Variables \in { set_variable(<<n>>, ShadowValue, NoStore, TRUE).store :
                       n \in ShadowNames }
  /\ written = Variables
  /\ SingleCaller
  /\ run = NoRun
  /\ gui = NoGui
  /\ pc = "ready"
  /\ call \in ShadowCalls
  /\ result = Ok(Zero)
  /\ memBefore = MEMORY
  /\ ledger = MEMORY

SpecShadow == InitShadow /\ [][RunEvaluate]_vars

\* the stored name is a parseable number, a constant or a built-in function
Shadowed(k) ==
  \/ parse_f64(k).ok
  \/ k \in {<<"pi">>, <<"e">>, <<"tau">>, <<"phi">>, <<"inf">>, <<"infinity">>}
  \/ (Len(k) = 1 /\ k[1] \in MathFunctions)

\* the outcome of the last call with nothing stored
Unread == evaluate_expression(call.expr, memBefore, NoStore).res

ShadowReturned == pc = "done" /\ call.op = "evaluate" /\ call.syms # <<>>
                    /\ call.expr = ShadowText(call.shape, call.syms[1])

\* an earlier step of add_token claims the identifier as it is spelled
ClaimedEarlier(s) ==
  \/ parse_f64(<<s>>).ok
  \/ s \in {MPlus[1], MMinus[1], MR[1], MC[1]}
  \/ (contains_to(<<s>>) /\ is_valid_conversion(<<s>>))
  \/ Lower(s) \in {"pi", "e", "tau", "phi", "inf", "infinity"}
  \/ s \in MathFunctions

(* C22, as stated: a variable whose name equals a constant, a built-in     *)
(* function name or a parseable number is never read by evaluate: every    *)
(* call returns what it returns with nothing stored.                       *)
C22_ShadowedNeverRead ==
  (ShadowReturned /\ \A k \in DOMAIN written : Shadowed(k)) => result = Unread

(* C22, amended: a pending identifier is resolved in the order literal,    *)
(* memory op, conversion, constant in any letter case, built-in function   *)
(* in its exact spelling, Variable Store in any letter case.  A variable   *)
(* whose name is a number or a constant is never read; one whose name is a *)
(* built-in function is not read by the function's exact spelling but is   *)
(* read by a spelling in another letter case; the store is asked exactly   *)
(* when no earlier step claims the identifier as spelled.                  *)
C22_ResolutionOrder ==
  ShadowReturned =>
    /\ ClaimedEarlier(call.syms[1]) => result = Unread
    /\ (~ClaimedEarlier(call.syms[1]) /\ Fold(call.syms[1]) \in DOMAIN written
          /\ call.shape \in {"var", "var+1"})
         => result = ReadAs(written[Fold(call.syms[1])])
    /\ (~ClaimedEarlier(call.syms[1]) /\ Fold(call.syms[1]) \notin DOMAIN written)
         => result = Unread

\* pi is stored as 7 and "pi + 1" has returned pi + 1, not 8
C22_Witness ==
  /\ ShadowReturned /\ call.shape = "var+1" /\ call.syms = <<"pi">>
  /\ written = set_variable(<<"pi">>, ShadowValue, NoStore, TRUE).store
  /\ result = Ok(Add(PI, Num(1)))

\* sqrt is stored as 7 and "SQRT" has returned 7
C22_ReadThroughCase ==
  /\ ShadowReturned /\ call.shape = "var" /\ call.syms = <<"SQRT">>
  /\ DOMAIN written = {<<"sqrt">>}
  /\ result = Ok(ShadowValue)

---------------------------------------------------------------------------
(* Signs: a '-' in each place the tokenizer tells apart                    *)

Unsigneds == {Num(n) : n \in 0..MaxNum} \cup {Rat(3, 2)}

SignShapes ==
  {"a -b", "a-b", "a - -b", "-a ^ 2", "a * -b", "(-a + b)", "abs -a", "(a + 1) -b"}

SignText(shape, a, b) ==
  CASE shape = "a -b"       -> Show(a) \o <<" ", "-">> \o Show(b)
    [] shape = "a-b"        -> Show(a) \o <<"-">> \o Show(b)
    [] shape = "a - -b"     -> Show(a) \o <<" ", "-", " ", "-">> \o Show(b)
    [] shape = "-a ^ 2"     -> <<"-">> \o Show(a) \o <<" ", "^", " ", "2">>
    [] shape = "a * -b"     -> Show(a) \o <<" ", "*", " ", "-">> \o Show(b)
    [] shape = "(-a + b)"   -> <<"(", "-">> \o Show(a) \o <<" ", "+", " ">> \o Show(b)
                                 \o <<")">>
    [] shape = "abs -a"     -> <<"abs", " ", "-">> \o Show(a)
    [] shape = "(a + 1) -b" -> <<"(">> \o Show(a) \o <<" ", "+", " ", "1", ")", " ", "-">>
                                 \o Show(b)

SignCalls ==
  { EvalCall(sh, <<a, b>>, <<>>, SignText(sh, a, b)) :
      sh \in SignShapes, a \in Unsigneds, b \in Unsigneds }

InitSign == InitOne(SignCalls)

SpecSign == InitSign /\ [][RunEvaluate]_vars

\* the tokens the claim reads in the text
SignTokens(shape, a, b) ==
  CASE shape \in {"a -b", "a-b"} -> <<Number(a), Operator("-"), Number(b)>>
    [] shape = "a - -b"     -> <<Number(a), Operator("-"), Number(Neg(b))>>
    [] shape = "-a ^ 2"     -> <<Number(Neg(a)), Operator("^"), Number(Num(2))>>
    [] shape = "a * -b"     -> <<Number(a), Operator("*"), Number(Neg(b))>>
    [] shape = "(-a + b)"   -> <<LeftParen, Number(Neg(a)), Operator("+"), Number(b),
                                 RightParen>>
    [] shape = "abs -a"     -> <<Function(<<"abs">>), Number(Neg(a))>>
    [] shape = "(a + 1) -b" -> <<LeftParen, Number(a), Operator("+"), Number(Num(1)),
                                 RightParen, Operator("-"), Number(b)>>

\* the value the claim gives the text
SignMeaning(shape, a, b) ==
  CASE shape \in {"a -b", "a-b"} -> Sub(a, b)
    [] shape = "a - -b"     -> Add(a, b)
    [] shape = "-a ^ 2"     -> Pow(Neg(a), Num(2))
    [] shape = "a * -b"     -> Mul(a, Neg(b))
    [] shape = "(-a + b)"   -> Add(Neg(a), b)
    [] shape = "abs -a"     -> a
    [] shape = "(a + 1) -b" -> Sub(Add(a, Num(1)), b)

SignReturned == pc = "done" /\ call.op = "evaluate" /\ call.shape \in SignShapes

(* C23: a '-' at the start of the input or directly after an operator, a   *)
(* '(' or a function name is the sign of the literal that follows; a '-'   *)
(* after a number or a ')' is binary subtraction: "a -b" and "a-b" are     *)
(* a minus b, "a - -b" is a plus b, and "-a ^ 2" is (-a)^2.                *)
C23_SignOrSubtraction ==
  SignReturned =>
    /\ tokenize(call.expr, Variables).ok
    /\ tokenize(call.expr, Variables).tokens
         = SignTokens(call.shape, call.nums[1], call.nums[2])
    /\ result = Ok(SignMeaning(call.shape, call.nums[1], call.nums[2]))
    /\ call.shape = "-a ^ 2" => result = Ok(Mul(call.nums[1], call.nums[1]))

\* "3 -2" has returned 1 and "-3 ^ 2" has returned 9
C23_Witness ==
  \/ /\ SignReturned /\ call.expr = <<"3", " ", "-", "2">> /\ result = Ok(Num(1))
  \/ /\ SignReturned /\ call.expr = <<"-", "3", " ", "^", " ", "2">>
     /\ result = Ok(Num(9))

---------------------------------------------------------------------------
(* Parenthesised expressions: "(E)" for E a literal, a constant, a         *)
(* variable, a binary operation or a function application                  *)

WrapInners ==
  { Show(a) : a \in Lits }
    \cup { <<"pi">>, <<"e">>, <<"x">>, <<"X">> }
    \cup { Show(a) \o Sp \o <<o>> \o Sp \o Show(b) : a \in Lits, b \in Lits, o \in OpChars }
    \cup { <<f>> \o Sp \o Show(a) : f \in {"sqrt", "abs"}, a \in Lits }
    \cup { <<f, "(">> \o Show(a) \o <<")">> : f \in {"sqrt", "abs"}, a \in Lits }

WrapCalls == { EvalCall("wrap", <<>>, <<>>, <<"(">> \o t \o <<")">>) : t \in WrapInners }

InitWrap ==
  /\ MEMORY = Zero
  /\ Variables = set_variable(<<"x">>, Num(3), NoStore, TRUE).store
  /\ written = Variables
  /\ SingleCaller
  /\ run = NoRun
  /\ gui = NoGui
  /\ pc = "ready"
  /\ call \in WrapCalls
  /\ result = Ok(Zero)
  /\ memBefore = MEMORY
  /\ ledger = MEMORY

SpecWrap == InitWrap /\ [][RunEvaluate]_vars

\* the outcome of E for the last call "(E)"
Unwrapped ==
  evaluate_expression(SubSeq(call.expr, 2, Len(call.expr) - 1), memBefore, Variables).res

(* C24: for every expression E without memory operations that evaluates   *)
(* to v, a single number, constant or variable included, evaluate("(E)")   *)
(* returns v.                                                              *)
C24_ParenthesesKeepResult ==
  (Returned("wrap") /\ Unwrapped.ok) => result = Unwrapped

\* "(2)" has failed with SyntaxError although "2" evaluates to 2
C24_SingleOperandFails ==
  /\ Returned("wrap") /\ call.expr = <<"(", "2", ")">>
  /\ Unwrapped = Ok(Num(2))
  /\ result = Err("SyntaxError", "Invalid expression format")

\* "(E)" returns what E returns whenever E has more than one token
C24_CompoundKeepsResult ==
  (Returned("wrap") /\ Unwrapped.ok
     /\ Len(tokenize(SubSeq(call.expr, 2, Len(call.expr) - 1), Variables).tokens) > 1)
    => result = Unwrapped

---------------------------------------------------------------------------
(* Arity: operands, binary operators and a function name, one blank apart  *)

ArityAtoms == {"2", "+", "*", "sqrt"}

Spaced(atoms) ==
  [i \in 1..(2 * Len(atoms) - 1) |-> IF i % 2 = 1 THEN atoms[(i + 1) \div 2] ELSE " "]

ArityCalls ==
  { EvalCall("arity", <<>>, a, Spaced(a)) : a \in TextsOver(ArityAtoms, MaxLen) \ {<<>>} }

InitArity == InitOne(ArityCalls)

SpecArity == InitArity /\ [][RunEvaluate]_vars

\* operand (operator operand)*, an operand being 2 or sqrt before an operand
BeginsOperand(a, i) == i <= Len(a) /\ a[i] \in {"2", "sqrt"}
AfterOperand(a, i) == i > 1 /\ a[i - 1] = "2"
RightArity(a) ==
  \A i \in 1..Len(a) :
    CASE a[i] = "2"    -> ~AfterOperand(a, i)
      [] a[i] = "sqrt" -> ~AfterOperand(a, i) /\ BeginsOperand(a, i + 1)
      [] OTHER         -> AfterOperand(a, i) /\ BeginsOperand(a, i + 1)

(* C25: an expression with wrong arity, a binary operator lacking an       *)
(* operand, a function lacking its argument, or operands left over with no *)
(* operator between them, fails with an error of kind SyntaxError, for     *)
(* every number of tokens.                                                 *)
C25_WrongArityIsSyntaxError ==
  (Returned("arity") /\ ~RightArity(call.syms)) => result.kind = "SyntaxError"

\* "+" alone and "2 + +" have failed with ParseError
C25_LoneOperatorIsParseError ==
  /\ Returned("arity") /\ call.syms \in {<<"+">>, <<"2", "+", "+">>}
  /\ result = Err("ParseError", "Expected a number")

\* "2 sqrt + 2" has returned a value
C25_PostfixFunctionAccepted ==
  /\ Returned("arity") /\ call.syms = <<"2", "sqrt", "+", "2">>
  /\ result.ok

---------------------------------------------------------------------------
(* Space-form functions next to a binary operator                          *)

SpaceFunctions == {"sqrt", "abs", "fact"}

SpaceText(shape, f, x, o, y) ==
  CASE shape = "f x op y" -> <<f, " ">> \o Show(x) \o <<" ", o, " ">> \o Show(y)
    [] shape = "y op f x" -> Show(y) \o <<" ", o, " ", f, " ">> \o Show(x)

SpaceCalls ==
  { EvalCall(sh, <<x, y>>, <<f, o>>, SpaceText(sh, f, x, o, y)) :
      sh \in {"f x op y", "y op f x"}, f \in SpaceFunctions, o \in OpChars,
      x \in Lits, y \in Lits }

InitSpace == InitOne(SpaceCalls)

SpecSpace == InitSpace /\ [][RunEvaluate]_vars

\* l op r, or the error of the side that failed
Combine(l, o, r) ==
  IF ~l.ok THEN l ELSE IF ~r.ok THEN r ELSE evaluate_binary_operation(l.v, o, r.v)

\* (f x) op y or y op (f x)
SpaceMeaning(shape, f, x, o, y) ==
  CASE shape = "f x op y" -> Combine(evaluate_function(<<f>>, x, Zero).res, o, Ok(y))
    [] shape = "y op f x" -> Combine(Ok(y), o, evaluate_function(<<f>>, x, Zero).res)

SpaceReturned ==
  pc = "done" /\ call.op = "evaluate" /\ call.shape \in {"f x op y", "y op f x"}

(* C26: a function written in space form applies only to the operand right *)
(* after it and binds tighter than every binary operator, ^ included:      *)
(* "f x op y" evaluates as (f x) op y and "y op f x" as y op (f x).        *)
C26_SpaceFormBindsTightest ==
  SpaceReturned =>
    result = SpaceMeaning(call.shape, call.syms[1], call.nums[1], call.syms[2],
                          call.nums[2])

\* "fact 3 ^ 2" has returned 36 and "2 ^ fact 3" has returned 64
C26_Witness ==
  /\ SpaceReturned /\ call.syms = <<"fact", "^">>
  /\ call.nums = <<Num(3), Num(2)>>
  /\ \/ call.shape = "f x op y" /\ result = Ok(Num(36))
     \/ call.shape = "y op f x" /\ result = Ok(Num(64))

---------------------------------------------------------------------------
(* The command line: a line that starts with "let " goes to                *)
(* define_variable with the rest of the line                              *)

\* the outcome once set_variable has run: its error, or the value
Stored(set, r) ==
  [store |-> set.store, mem |-> r.mem, res |-> IF set.res.ok THEN r.res ELSE set.res]

\* a write that does not look at the outcome of the evaluation
AssignUnchecked(var_name, r, store, io) ==
  Stored(set_variable(var_name, r.res.v, store, io), r)

\* the match on the outcome r of evaluate_expression
Assign(var_name, r, store, io) ==
  IF r.res.ok THEN Stored(set_variable(var_name, r.res.v, store, io), r)
  ELSE [store |-> store, mem |-> r.mem, res |-> r.res]

\* input.splitn(2, '='): the place of the first '=', 0 when there is none
EqualsAt(input) ==
  IF \A i \in 1..Len(input) : input[i] # "=" THEN 0
  ELSE CHOOSE i \in 1..Len(input) :
         input[i] = "=" /\ \A j \in 1..(i - 1) : input[j] # "="

SplitAt(input, at, mem, store, io) ==
  IF at = 0
  THEN [store |-> store, mem |-> mem, res |-> Err("Usage", "Invalid variable assignment")]
  ELSE Assign(trim(SubSeq(input, 1, at - 1)),
              evaluate_expression(trim(SubSeq(input, at + 1, Len(input))), mem, store),
              store, io)

\* define_variable: [store, mem, res]
define_variable(input, mem, store, io) == SplitAt(input, EqualsAt(input), mem, store, io)

\* a line, with the name and the expression it is meant to hold
Line(name, eq, rhs, text) ==
  [op |-> "let", shape |-> "let", nums |-> <<>>, syms |-> name, expr |-> text,
   eq |-> eq, rhs |-> rhs]

LetLines ==
  { Line(<<"x">>, TRUE, <<"2">>, <<"let", " ", "x", " ", "=", " ", "2">>),
    Line(<<"x">>, TRUE, <<"5">>, <<"let", " ", "x", "=", "5">>),
    Line(<<"X">>, TRUE, <<"3">>, <<"let", " ", "X", " ", "=", " ", "3">>),
    Line(<<"x">>, TRUE, <<"x", " ", "+", " ", "1">>,
         <<"let", " ", "x", " ", "=", " ", "x", " ", "+", " ", "1">>),
    Line(<<"y">>, TRUE, <<"x", " ", "*", " ", "2">>,
         <<"let", " ", "y", " ", "=", " ", "x", " ", "*", " ", "2">>),
    Line(<<"x">>, TRUE, <<"y">>, <<"let", " ", "x", " ", "=", " ", "y">>),
    Line(<<"x">>, TRUE, <<"1", " ", "/", " ", "0">>,
         <<"let", " ", "x", " ", "=", " ", "1", " ", "/", " ", "0">>),
    Line(<<"y">>, TRUE, <<"2", " ", "+">>, <<"let", " ", "y", " ", "=", " ", "2", " ", "+">>),
    Line(<<"x">>, TRUE, <<"2", " ", "=", " ", "3">>,
         <<"let", " ", "x", " ", "=", " ", "2", " ", "=", " ", "3">>),
    Line(<<"pi">>, TRUE, <<"4">>, <<"let", " ", "pi", " ", "=", " ", "4">>),
    Line(<<"x">>, FALSE, <<"2">>, <<"let", " ", "x", " ", "2">>),
    Line(<<"y">>, FALSE, <<>>, <<"let", " ", "y">>) }

LetCalls == { [l EXCEPT !.nums = <<io>>] : l \in LetLines, io \in {Num(0), Num(1)} }

MaxVar == 6   \* a line is read while every stored value is at most this in size

VarBounded ==
  \A k \in DOMAIN Variables :
    Variables[k].k = "rat" /\ AbsInt(Variables[k].n) <= MaxVar * Variables[k].d

ReadLine(c) ==
  /\ pc = "done"
  /\ VarBounded
  /\ call' = c
  /\ pc' = "ready"
  /\ UNCHANGED <<MEMORY, Variables, result, memBefore, ledger, written, lock, threads, run, gui>>

\* the outcome r of the line applied to the shared state
Applies(r) == Variables' = r.store /\ MEMORY' = r.mem /\ result' = r.res

\* the branch of the main loop for a line that starts with "let "
RunDefineVariable ==
  /\ pc = "ready"
  /\ call.op = "let"
  /\ SubSeq(call.expr, 1, 2) = <<"let", " ">>
  /\ Applies(define_variable(SubSeq(call.expr, 3, Len(call.expr)), MEMORY, Variables,
                             call.nums[1] = Num(1)))
  /\ written' = Variables
  /\ memBefore' = MEMORY
  /\ pc' = "done"
  /\ UNCHANGED <<call, ledger, lock, threads, run, gui>>

NextCli ==
  \/ \E c \in LetCalls : ReadLine(c)
  \/ RunDefineVariable

SpecCli == Init /\ [][NextCli]_vars

LetDone == pc = "done" /\ call.op = "let"

\* what the expression of the last line evaluated to when the line was read
LetValue == evaluate_expression(call.rhs, memBefore, written).res

(* C27: in the CLI, "let name = expr" writes the Variable Store only when  *)
(* expr evaluates successfully, storing the value expr had at that moment; *)
(* when the evaluation fails, or the input has no '=', no variable is      *)
(* created or changed.                                                     *)
C27_LetWritesOnSuccess ==
  LetDone =>
    IF call.eq /\ LetValue.ok
    THEN /\ DOMAIN Variables = DOMAIN written \cup {to_lowercase(call.syms)}
         /\ Variables[to_lowercase(call.syms)] = LetValue.v
         /\ \A k \in DOMAIN written \ {to_lowercase(call.syms)} :
              Variables[k] = written[k]
    ELSE Variables = written

\* "let x = x + 1" has raised x from 2 to 3, and "let x = 1 / 0" has then
\* left it at 3
C27_Witness ==
  /\ LetDone /\ call.rhs = <<"1", " ", "/", " ", "0">>
  /\ ~result.ok
  /\ <<"x">> \in DOMAIN Variables /\ Variables[<<"x">>] = Num(3)
  /\ <<"y">> \in DOMAIN Variables /\ Variables[<<"y">>] = Num(4)

---------------------------------------------------------------------------
(* Callers of the library on both locks: the RwLock of MEMORY and the      *)
(* Mutex of VARIABLES.  A caller is at "wantV" or "wantM" before a lock    *)
(* call returns, at "haveV" or "haveM" while the guard is alive, and at    *)
(* "done" when its call has returned; what it computes between two lock    *)
(* calls touches no shared state and is folded into the step before.       *)

NCallers == 2

BothFree == [writer |-> 0, readers |-> {}, owner |-> 0]

MemoryOps == {MPlus, MMinus, MR, MC}

\* a guard that is not dropped at the end of its scope
Kept(held, l) == held

\* the guard of lock l goes out of scope
Dropped(held, l) == held \ {l}

\* add_token reaches get_variable for the pending buffer
ReachesStore(token_str) == ~add_token(<<>>, token_str, NoStore).ok

\* the next step of tokenize flushes the pending buffer through add_token
Flushes(f, ch) ==
  /\ f.ok /\ f.cur # <<>>
  /\ \/ ch \in {" ", ")"}
     \/ ch \in OpChars /\ ~(ch \in {"+", "-"} /\ f.cur = <<"m">>)

\* the next step of tokenize, or the flush after the loop, calls get_variable
Asks(f, rest) ==
  IF rest = <<>> THEN f.ok /\ f.cur # <<>> /\ ReachesStore(f.cur)
  ELSE Flushes(f, Head(rest)) /\ ReachesStore(f.cur)

\* tokenize up to its next call of get_variable
RECURSIVE ScanTo(_, _)
ScanTo(f, rest) ==
  IF rest = <<>> \/ Asks(f, rest) THEN [f |-> f, rest |-> rest]
  ELSE CHOOSE s \in {ScanTo(g, r) : g \in {TokStep(f, Head(rest), NoStore)},
                                     r \in {Tail(rest)}} : TRUE

\* the next pass of evaluate_rpn takes the lock of MEMORY
NeedsMemory(st, tok) == tok.t = "Function" /\ tok.v \in MemoryOps /\ st.stack # <<>>

\* evaluate_rpn up to its next memory function
RECURSIVE RunTo(_, _)
RunTo(st, post) ==
  IF ~st.ok \/ post = <<>> \/ NeedsMemory(st, Head(post)) THEN [st |-> st, post |-> post]
  ELSE CHOOSE r \in {RunTo(s, p) : s \in {RpnStep(st, Head(post))},
                                    p \in {Tail(post)}} : TRUE

Return(th, r) == [th EXCEPT !.at = "done", !.ret = r]

\* the evaluation has stopped at r: at its end, or before a memory function
RanAt(th, r) ==
  IF ~r.st.ok \/ r.post = <<>> THEN Return(th, RpnEnd(r.st).res)
  ELSE [th EXCEPT !.at = "wantM", !.phase = "rpn",
                  !.mode = IF Head(r.post).v = MR THEN "R" ELSE "W",
                  !.st = r.st, !.post = r.post]

\* RanAt, with r computed once
Ran(th, r) == CHOOSE y \in {RanAt(th, x) : x \in {r}} : TRUE

ConvertedAt(th, yard) ==
  IF ~yard.ok THEN Return(th, yard.res)
  ELSE Ran(th, RunTo(RpnInit(Zero), yard.output_queue))

\* ConvertedAt, with yard computed once
Converted(th, yard) == CHOOSE y \in {ConvertedAt(th, x) : x \in {yard}} : TRUE

\* the dispatch of evaluate_expression on the tokens
PlannedAt(th, toks) ==
  IF ~toks.ok THEN Return(th, toks.res)
  ELSE IF Len(toks.tokens) = 2 /\ is_function(toks.tokens[1])
            /\ toks.tokens[1].v \in MemoryOps /\ get_number(toks.tokens[2]).ok
  THEN Ran(th, RunTo(RpnInit(Zero), <<toks.tokens[2], toks.tokens[1]>>))
  ELSE IF Len(toks.tokens) > 3 THEN Converted(th, to_postfix(toks.tokens))
  ELSE Return(th, Dispatch(toks.tokens, Zero).res)

\* PlannedAt, with toks computed once
Planned(th, toks) == CHOOSE y \in {PlannedAt(th, x) : x \in {toks}} : TRUE

\* tokenize has stopped at s: before a call of get_variable, or at its end
ScannedAt(th, s) ==
  IF Asks(s.f, s.rest)
  THEN [th EXCEPT !.at = "wantV", !.phase = "scan", !.f = s.f, !.rest = s.rest]
  ELSE Planned([th EXCEPT !.f = s.f, !.rest = <<>>], TokEnd(LastFlush(s.f, NoStore)))

\* ScannedAt, with s computed once
Scanned(th, s) == CHOOSE y \in {ScannedAt(th, x) : x \in {s}} : TRUE

\* the operand of the shorthand "<x> m+" or "<x> m-", if it is one
ShorthandOperand(text, suffix) ==
  IF strip_suffix(trim(text), suffix).some
  THEN parse_f64(trim(strip_suffix(trim(text), suffix).rest))
  ELSE Err("ParseError", "")

\* the shorthand of evaluate_expression that takes the lock of MEMORY, if the
\* text is one: the memory operation and its operand
MemoryShorthand(text) ==
  IF trim(text) \in {MR, MC} THEN [some |-> TRUE, op |-> trim(text), value |-> Zero]
  ELSE IF ShorthandOperand(text, MPlus).ok
  THEN [some |-> TRUE, op |-> MPlus, value |-> ShorthandOperand(text, MPlus).v]
  ELSE IF ShorthandOperand(text, MMinus).ok
  THEN [some |-> TRUE, op |-> MMinus, value |-> ShorthandOperand(text, MMinus).v]
  ELSE [some |-> FALSE, op |-> <<>>, value |-> Zero]

\* a call up to its first lock call
Enter(th) ==
  IF th.op # "evaluate" THEN [th EXCEPT !.at = "wantV"]
  ELSE IF MemoryShorthand(th.text).some
  THEN [th EXCEPT !.at = "wantM", !.phase = "short",
                  !.mode = IF trim(th.text) = MR THEN "R" ELSE "W",
                  !.name = MemoryShorthand(th.text).op,
                  !.value = MemoryShorthand(th.text).value]
  ELSE IF Shorthand(th.text, Zero).some THEN Return(th, Shorthand(th.text, Zero).res)
  ELSE Scanned(th, ScanTo(TokInit, th.text))

Caller(op, text, name, value, io) ==
  Enter([op |-> op, text |-> text, name |-> name, value |-> value, io |-> io,
         at |-> "start", phase |-> "none", mode |-> "none", held |-> {},
         f |-> TokInit, rest |-> <<>>, st |-> RpnInit(Zero), post |-> <<>>,
         ret |-> Ok(Zero)])

LockTexts ==
  { <<"mr">>, <<"1", " ", "m", "+">>, <<"m", "+", " ", "x">>,
    <<"mr", " ", "0", " ", "+", " ", "x">> }

LockCalls ==
  { Caller("evaluate", t, <<>>, Zero, TRUE) : t \in LockTexts }
    \cup { Caller("set_variable", <<>>, <<"x">>, Num(2), io) : io \in BOOLEAN }
    \cup { Caller("get_variable", <<>>, <<"X">>, Zero, TRUE),
           Caller("get_all_variables", <<>>, <<>>, Zero, TRUE) }

\* VARIABLES.lock() returns
AcquireVariables(t) ==
  /\ threads[t].at = "wantV"
  /\ lock.owner = 0
  /\ lock' = [lock EXCEPT !.owner = t]
  /\ threads' = [threads EXCEPT ![t].at = "haveV", ![t].held = @ \cup {"V"}]
  /\ UNCHANGED <<MEMORY, Variables, pc, call, result, memBefore, ledger, written, run, gui>>

\* what the caller does under the guard of VARIABLES, up to its next lock call
UnderVariables(th, store) ==
  CASE th.op = "set_variable" ->
         Return(th, set_variable(th.name, th.value, store, th.io).res)
    [] th.op = "get_variable" ->
         Return(th, IF get_variable(th.name, store).some
                    THEN Some(get_variable(th.name, store).v) ELSE None)
    [] th.op = "get_all_variables" -> Return(th, Ok(Zero))
    [] th.op = "evaluate" ->
         IF th.rest = <<>> THEN Scanned(th, [f |-> LastFlush(th.f, store), rest |-> <<>>])
         ELSE Scanned(th, ScanTo(TokStep(th.f, Head(th.rest), store), Tail(th.rest)))

\* the guard of VARIABLES is dropped when get_variable, get_all_variables or
\* set_variable returns
ReleaseVariables(t) ==
  /\ threads[t].at = "haveV"
  /\ Variables' = IF threads[t].op = "set_variable"
                  THEN set_variable(threads[t].name, threads[t].value, Variables,
                                    threads[t].io).store
                  ELSE Variables
  /\ threads' = [threads EXCEPT ![t] =
                   [UnderVariables(threads[t], Variables)
                      EXCEPT !.held = Dropped(threads[t].held, "V")]]
  /\ lock' = [lock EXCEPT !.owner = IF "V" \in Dropped(threads[t].held, "V") THEN t ELSE 0]
  /\ UNCHANGED <<MEMORY, pc, call, result, memBefore, ledger, written, run, gui>>

\* MEMORY.read() or MEMORY.write() returns
AcquireMemory(t) ==
  /\ threads[t].at = "wantM"
  /\ IF threads[t].mode = "R"
     THEN CanRead(lock) /\ lock' = [lock EXCEPT !.readers = @ \cup {t}]
     ELSE CanWrite(lock) /\ lock' = [lock EXCEPT !.writer = t]
  /\ threads' = [threads EXCEPT ![t].at = "haveM", ![t].held = @ \cup {"M"}]
  /\ UNCHANGED <<MEMORY, Variables, pc, call, result, memBefore, ledger, written, run, gui>>

\* the pass of evaluate_rpn for a memory function, on the register mem
MemoryPass(th, mem) == RpnStep([th.st EXCEPT !.mem = mem], Head(th.post))

\* the register after the caller's memory operation
MemoryAfter(th, mem) ==
  IF th.phase = "short" THEN evaluate_function(th.name, th.value, mem).mem
  ELSE MemoryPass(th, mem).mem

\* what the caller does under the guard of MEMORY, up to its next lock call
UnderMemory(th, mem) ==
  IF th.phase = "short" THEN Return(th, evaluate_function(th.name, th.value, mem).res)
  ELSE Ran(th, RunTo(MemoryPass(th, mem), Tail(th.post)))

\* the guard of MEMORY is dropped at the end of the arm or at the return
ReleaseMemory(t) ==
  /\ threads[t].at = "haveM"
  /\ MEMORY' = MemoryAfter(threads[t], MEMORY)
  /\ threads' = [threads EXCEPT ![t] =
                   [UnderMemory(threads[t], MEMORY)
                      EXCEPT !.held = Dropped(threads[t].held, "M")]]
  /\ lock' = IF "M" \in Dropped(threads[t].held, "M") THEN lock
             ELSE [lock EXCEPT !.writer = IF @ = t THEN 0 ELSE @, !.readers = @ \ {t}]
  /\ UNCHANGED <<Variables, pc, call, result, memBefore, ledger, written, run, gui>>

CallerStep(t) ==
  \/ AcquireVariables(t)
  \/ ReleaseVariables(t)
  \/ AcquireMemory(t)
  \/ ReleaseMemory(t)

InitLocks ==
  /\ MEMORY = Num(1)
  /\ memBefore = MEMORY
  /\ ledger = MEMORY
  /\ Variables \in {NoStore, set_variable(<<"x">>, Num(3), NoStore, TRUE).store}
  /\ written = Variables
  /\ pc = "done"
  /\ call = NoCall
  /\ result = Ok(Zero)
  /\ run = NoRun
  /\ gui = NoGui
  /\ lock = BothFree
  /\ threads \in [1..NCallers -> LockCalls]

NextLocks == \E t \in 1..NCallers : CallerStep(t)

SpecLocks == InitLocks /\ [][NextLocks]_vars

\* every caller that can take a step does take one
SpecLocksFair == SpecLocks /\ \A t \in 1..NCallers : WF_vars(CallerStep(t))

\* the lock call the caller waits in can return
CanStep(t) ==
  CASE threads[t].at = "wantV" -> lock.owner = 0
    [] threads[t].at = "wantM" ->
         IF threads[t].mode = "R" THEN CanRead(lock) ELSE CanWrite(lock)
    [] threads[t].at \in {"haveV", "haveM"} -> TRUE
    [] OTHER -> FALSE

NoTwoLocks == \A t \in 1..NCallers : threads[t].held # {"M", "V"}

NoRelock ==
  \A t \in 1..NCallers :
    /\ threads[t].at = "wantV" => "V" \notin threads[t].held
    /\ threads[t].at = "wantM" => "M" \notin threads[t].held
    /\ threads[t].at = "done" => threads[t].held = {}

NoDeadlock ==
  (\E t \in 1..NCallers : threads[t].at # "done") => \E t \in 1..NCallers : CanStep(t)

(* C28: no call holds the memory-register lock and the Variable Store lock *)
(* at the same time, and no call acquires a lock it holds; concurrent      *)
(* evaluate, set_variable, get_variable and get_all_variables calls cannot *)
(* deadlock and each one eventually returns.                               *)
C28_LocksNeverNest ==
  /\ [](NoTwoLocks /\ NoRelock /\ NoDeadlock)
  /\ \A t \in 1..NCallers : <>(threads[t].at = "done")

\* both callers have returned, one from "m+ x" that took each lock in turn and
\* added to the register the 2 that the other's set_variable had stored
C28_Witness ==
  /\ \A t \in 1..NCallers : threads[t].at = "done" /\ threads[t].held = {}
  /\ threads[1].text = <<"m", "+", " ", "x">> /\ threads[1].ret.ok
  /\ threads[2].op = "set_variable"
  /\ written = NoStore
  /\ MEMORY = Add(memBefore, Num(2)) /\ threads[1].ret = Ok(MEMORY)

---------------------------------------------------------------------------
(* The window (gui.rs): update handles one message at a time; a Command    *)
(* returned by update yields its message later, after any number of key    *)
(* presses that the runtime hands to update first                          *)

MaxKeys == 3

GuiKeys == {"1", "2", "+", "Backspace", "Clear", "ClearEntry", "Equals"}

\* Calculator::new, with nothing pressed and nothing in flight
Opened ==
  [open |-> TRUE, input |-> <<>>, result |-> <<>>, last_key |-> <<>>,
   inflight |-> <<>>, pressed |-> 0,
   typed |-> <<>>, asked |-> <<>>, answered |-> <<>>, overtaken |-> FALSE]

\* String::pop
PopChar(t) == IF t = <<>> THEN t ELSE SubSeq(t, 1, Len(t) - 1)

\* Command::perform(async { () }, |_| message): the message is in flight
Perform(g, message) == [g EXCEPT !.inflight = Append(@, message)]

\* update(Message::KeyPressed(key))
KeyPressed(g, key) ==
  CASE key = "Equals"     -> Perform([g EXCEPT !.last_key = <<key>>], "Calculate")
    [] key = "Clear"      -> Perform([g EXCEPT !.last_key = <<key>>], "Clear")
    [] key = "ClearEntry" -> Perform([g EXCEPT !.last_key = <<key>>], "ClearEntry")
    [] key = "Backspace"  -> Perform([g EXCEPT !.last_key = <<key>>], "Backspace")
    [] OTHER -> [g EXCEPT !.last_key = <<key>>, !.input = Append(@, key)]

\* update(Message::Clear), update(Message::ClearEntry), update(Message::Backspace)
Edited(g, message) ==
  CASE message = "Clear" ->
         [g EXCEPT !.input = <<>>, !.result = <<>>, !.last_key = <<"Clear">>]
    [] message = "ClearEntry" -> [g EXCEPT !.input = <<>>, !.last_key = <<"ClearEntry">>]
    [] message = "Backspace" ->
         [g EXCEPT !.input = PopChar(@), !.last_key = <<"Backspace">>]

\* the input after the key is applied to the text t in press order
KeyEdit(t, key) ==
  CASE key \in {"Clear", "ClearEntry"} -> <<>>
    [] key = "Backspace" -> PopChar(t)
    [] key = "Equals" -> t
    [] OTHER -> Append(t, key)

\* the press is recorded: the text the keys spell so far, and at Equals the
\* text to be evaluated
Noted(g, key) ==
  [g EXCEPT !.pressed = @ + 1,
            !.typed = KeyEdit(@, key),
            !.asked = IF key = "Equals" THEN <<g.typed>> ELSE @,
            !.overtaken = @ \/ g.inflight # <<>>]

\* a key is pressed and its KeyPressed message is handled
PressKey(key) ==
  /\ gui.open
  /\ gui.pressed < MaxKeys
  /\ gui' = Noted(KeyPressed(gui, key), key)
  /\ UNCHANGED <<MEMORY, Variables, pc, call, result, memBefore, ledger, written, lock,
                 threads, run>>

\* update(Message::Calculate), with r the outcome of evaluate_expression
Calculated(g, r) ==
  [g EXCEPT !.result = <<r.res>>, !.answered = <<g.input>>, !.inflight = Tail(@)]

\* the message of a Command is handed to update
Deliver ==
  /\ gui.open
  /\ gui.inflight # <<>>
  /\ IF Head(gui.inflight) = "Calculate"
     THEN /\ gui' = Calculated(gui, evaluate_expression(gui.input, MEMORY, Variables))
          /\ MEMORY' = evaluate_expression(gui.input, MEMORY, Variables).mem
     ELSE /\ gui' = [Edited(gui, Head(gui.inflight)) EXCEPT !.inflight = Tail(@)]
          /\ MEMORY' = MEMORY
  /\ UNCHANGED <<Variables, pc, call, result, memBefore, ledger, written, lock, threads, run>>

InitGui ==
  /\ MEMORY = Zero
  /\ Variables = NoStore
  /\ pc = "done"
  /\ call = NoCall
  /\ result = Ok(Zero)
  /\ memBefore = Zero
  /\ ledger = Zero
  /\ written = NoStore
  /\ SingleCaller
  /\ run = NoRun
  /\ gui = Opened

NextGui ==
  \/ \E key \in GuiKeys : PressKey(key)
  \/ Deliver

SpecGui == InitGui /\ [][NextGui]_vars

\* every message has been processed
Quiet == gui.open /\ gui.inflight = <<>>

(* C29: in the GUI, key presses take effect in the order they are pressed: *)
(* after all messages are processed the input text equals the result of    *)
(* applying each key's edit in press order, a Backspace removes the        *)
(* character that was last when it was pressed, and Equals evaluates the   *)
(* input as it was when it was pressed.                                    *)
C29_PressOrder ==
  Quiet => /\ gui.input = gui.typed
           /\ gui.asked # <<>> => gui.answered = gui.asked

\* 1, Backspace, 2 were pressed and the input is "1": the 2 was handled before
\* the Backspace message
C29_BackspaceOvertaken ==
  /\ Quiet /\ gui.pressed = 3
  /\ gui.typed = <<"2">> /\ gui.input = <<"1">>

\* 1, Equals, 2 were pressed and "12" was evaluated
C29_EqualsOvertaken ==
  /\ Quiet /\ gui.pressed = 3
  /\ gui.asked = <<<<"1">>>> /\ gui.answered = <<<<"1", "2">>>>

\* the press order is kept whenever no key is handled while a message is in
\* flight
C29_PressOrderWhenNotOvertaken ==
  (Quiet /\ ~gui.overtaken) =>
     /\ gui.input = gui.typed
     /\ gui.asked # <<>> => gui.answered = gui.asked

---------------------------------------------------------------------------
\* every Operator token carries one of the six symbols
OperatorsKnown(tokens) ==
  \A i \in 1..Len(tokens) : tokens[i].t = "Operator" => tokens[i].v \in OpChars

\* no RightParen is on the operator stack after any pass over the tokens
NoRightParenStacked(tokens) ==
  \A k \in 0..Len(tokens) :
    \A st \in {YardLoop(YardInit, SubSeq(tokens, 1, k))} :
      \A j \in 1..Len(st.operator_stack) : st.operator_stack[j].t # "RightParen"

\* what evaluate_rpn is handed holds only Number, Operator and Function tokens
PostfixClean(yard) ==
  yard.ok => \A i \in 1..Len(yard.output_queue) :
               yard.output_queue[i].t \in {"Number", "Operator", "Function"}

Unreachable ==
  {"Unexpected token in RPN evaluation", "Unknown operator",
   "Mismatched parentheses: extra ')'"}

(* C30: every Operator token carries one of the six symbols + - * / % ^, a *)
(* RightParen is never pushed on the operator stack, and the postfix       *)
(* sequence handed to the RPN evaluator holds only Number, Operator and    *)
(* Function tokens; the errors "Unexpected token in RPN evaluation",       *)
(* "Unknown operator" and "Mismatched parentheses: extra ')'" are          *)
(* unreachable from evaluate.                                              *)
C30_TokenInvariants ==
  Returned("text") =>
    /\ \A toks \in {tokenize(call.expr, Variables)} :
         toks.ok =>
           /\ OperatorsKnown(toks.tokens)
           /\ Len(toks.tokens) > 3 =>
                /\ NoRightParenStacked(toks.tokens)
                /\ \A yard \in {to_postfix(toks.tokens)} : PostfixClean(yard)
    /\ result.msg \notin Unreachable

\* "sqrt(2)" went through the shunting yard, its ')' popped the '(' and the
\* function, and the call has returned a value
C30_Witness ==
  /\ Returned("text") /\ call.expr = <<"sqrt", "(", "2", ")">>
  /\ to_postfix(tokenize(call.expr, Variables).tokens).output_queue
       = <<Number(Num(2)), Function(<<"sqrt">>)>>
  /\ result.ok

===========================================================================
